---- MODULE Spec2Model ----
(***************************************************************************)
(* A model of the README generator: the tree scan of                       *)
(* enhanced_readme_generator.py (analyze_project_structure and             *)
(* extract_dependencies) and the inference chains of auto_readme_info.py   *)
(* (AutoReadmeInfoGenerator).                                              *)
(*                                                                         *)
(* A Python str is a sequence of one-character strings, so that prefix,    *)
(* suffix, substring, case and regular-expression tests are computed on    *)
(* the characters, as the code computes them.  A path is the sequence of   *)
(* its parts (pathlib's Path.parts).                                       *)
(***************************************************************************)
EXTENDS Integers, Sequences, FiniteSets, TLC

VARIABLES
    rootParts,  \* parts of project_path, the resolved root directory
    tree,       \* the regular files under the root: a set of file records
    env,        \* the USER / USERNAME environment of the process
    pc,         \* position of the running operation
    todo,       \* items of project_path.rglob('*') not yet visited by the scan
    analysis,   \* the dictionary analyze_project_structure builds
    info,       \* the dictionary analyze_project builds
    entry,      \* the entry point that is running; "analysis" when the two analyses are called on their own
    rootKind,   \* what the path given as project folder is: "dir", "file" or "missing"
    out,        \* how the entry point ended: "" while it runs, "ok", "error" (reported), "raised" (uncaught)
    sidecar,    \* what load_auto_generated_info finds in readme_info.json
    user_data,  \* the dictionary get_user_input returns
    answers,    \* what the user typed at each prompt of get_user_input
    lastRead,   \* the last call of _read_file_safe: its arguments and the str returned
    project_type,\* the label detect_project_type returned
    installed,  \* the scripts that stand next to readme_workflow.py
    log,        \* what run_workflow has done so far, in order
    now         \* datetime.now(), in seconds after 2024-01-01 00:00:00

vars == <<rootParts, tree, env, pc, todo, analysis, info, entry, rootKind, out, sidecar, user_data, answers, lastRead, project_type, installed, log, now>>

---------------------------------------------------------------------------
(* Python str operations                                                   *)

UpperChars == <<"A","B","C","D","E","F","G","H","I","J","K","L","M","N","O","P","Q","R","S","T","U","V","W","X","Y","Z">>

LowerChars == <<"a","b","c","d","e","f","g","h","i","j","k","l","m","n","o","p","q","r","s","t","u","v","w","x","y","z">>

DigitChars == <<"0","1","2","3","4","5","6","7","8","9">>

Range(s) == {s[i] : i \in 1..Len(s)}

IsUpper(c) == c \in Range(UpperChars)

IsLower(c) == c \in Range(LowerChars)

IsDigit(c) == c \in Range(DigitChars)

\* \s of the re module, on the characters the model uses
IsSpace(c) == c \in {" ", "\t", "\n", "\r"}

\* \w of the re module
IsWord(c) == IsUpper(c) \/ IsLower(c) \/ IsDigit(c) \/ c = "_"

IndexIn(s, c) == CHOOSE i \in 1..Len(s) : s[i] = c

lower_char(c) == IF IsUpper(c) THEN LowerChars[IndexIn(UpperChars, c)] ELSE c

upper_char(c) == IF IsLower(c) THEN UpperChars[IndexIn(LowerChars, c)] ELSE c

\* str.lower()
lower(s) == [i \in 1..Len(s) |-> lower_char(s[i])]

\* str.upper()
upper(s) == [i \in 1..Len(s) |-> upper_char(s[i])]

\* str.startswith(p)
startswith(s, p) == Len(s) >= Len(p) /\ SubSeq(s, 1, Len(p)) = p

\* str.endswith(p)
endswith(s, p) == Len(s) >= Len(p) /\ SubSeq(s, Len(s) - Len(p) + 1, Len(s)) = p

\* s[i:i+len(p)] == p
MatchAt(s, i, p) == i >= 1 /\ i + Len(p) - 1 <= Len(s) /\ SubSeq(s, i, i + Len(p) - 1) = p

\* p in s
contains(s, p) == \E i \in 1..(Len(s) + 1) : MatchAt(s, i, p)

\* s.find(p) + 1: the first position of p in s, 0 when p is not in s
find(s, p) == IF contains(s, p) THEN CHOOSE i \in 1..(Len(s) + 1) : MatchAt(s, i, p) /\ \A j \in 1..(i - 1) : ~MatchAt(s, j, p) ELSE 0

\* s.rfind(p) + 1
rfind(s, p) == IF contains(s, p) THEN CHOOSE i \in 1..(Len(s) + 1) : MatchAt(s, i, p) /\ \A j \in (i + 1)..(Len(s) + 1) : ~MatchAt(s, j, p) ELSE 0

\* s.split(p)[0]
split_first(s, p) == IF contains(s, p) THEN SubSeq(s, 1, find(s, p) - 1) ELSE s

\* str.strip()
strip(s) ==
    IF \A i \in 1..Len(s) : IsSpace(s[i]) THEN << >>
    ELSE LET a == CHOOSE i \in 1..Len(s) : ~IsSpace(s[i]) /\ \A j \in 1..(i - 1) : IsSpace(s[j])
             b == CHOOSE i \in 1..Len(s) : ~IsSpace(s[i]) /\ \A j \in (i + 1)..Len(s) : IsSpace(s[j])
         IN  SubSeq(s, a, b)

\* str.replace(a, b) for single characters a and b
replace_char(s, a, b) == [i \in 1..Len(s) |-> IF s[i] = a THEN b ELSE s[i]]

\* str(n) for n >= 0
RECURSIVE str_int(_)
str_int(n) == IF n < 10 THEN <<DigitChars[n + 1]>> ELSE str_int(n \div 10) \o <<DigitChars[(n % 10) + 1]>>

\* the order of the characters (ASCII), for the comparison of strings
CharOrder == <<"\t", "\n", "\r", " ", "!", "\"", "#", "&", "'", "(", ")", "+", ",", "-", ".", "/">> \o DigitChars \o <<":", "<", "=", ">", "@">> \o UpperChars \o <<"[", "]", "_">> \o LowerChars \o <<"{", "}", "~">>

Ord(c) == IndexIn(CharOrder, c)

\* a < b for str
RECURSIVE str_less(_, _)
str_less(a, b) ==
    IF b = << >> THEN FALSE
    ELSE IF a = << >> THEN TRUE
    ELSE IF a[1] = b[1] THEN str_less(Tail(a), Tail(b))
    ELSE Ord(a[1]) < Ord(b[1])

\* the elements of the sequence s that satisfy Test, in order

\* x in s, for a list s
InSeq(x, s) == \E i \in 1..Len(s) : s[i] = x

\* s[-n:] for n > 0: the tail instead of the head
TakeLast(s, n) == SubSeq(s, IF Len(s) < n THEN 1 ELSE Len(s) - n + 1, Len(s))

\* s[:n]
Take(s, n) == SubSeq(s, 1, IF Len(s) < n THEN Len(s) ELSE n)

RECURSIVE Concat(_)
Concat(ss) == IF ss = << >> THEN << >> ELSE Head(ss) \o Concat(Tail(ss))

\* sorted(S) for a set S of str
RECURSIVE SortedStrs(_)
RECURSIVE ReverseSortedStrs(_)
ReverseSortedStrs(S) ==
    IF S = {} THEN << >>
    ELSE LET m == CHOOSE x \in S : \A y \in S \ {x} : str_less(y, x)
         IN  <<m>> \o ReverseSortedStrs(S \ {m})

SortedStrs(S) ==
    IF S = {} THEN << >>
    ELSE LET m == CHOOSE x \in S : \A y \in S \ {x} : str_less(x, y)
         IN  <<m>> \o SortedStrs(S \ {m})

---------------------------------------------------------------------------
(* The file system                                                         *)
(*                                                                         *)
(* A file is [path, n, at, mode, json, ini, py]: path is the sequence of   *)
(* its parts below the root, n its number of lines, at the list of its     *)
(* lines that are not empty ([no |-> line number, s |-> text without the   *)
(* newline]), every other line being empty; mode tells whether it can be   *)
(* opened and decoded.  The parsers of the standard library are not        *)
(* modelled: json, ini and py are what json.load, configparser and         *)
(* ast.parse / ast.get_docstring return on the file.                       *)

\* Path.name
Name(path) == path[Len(path)]

\* Path.parent, as parts below the root
Parent(path) == SubSeq(path, 1, Len(path) - 1)

\* Path.suffix
suffix(name) ==
    LET i == rfind(name, <<".">>)
    IN  IF i > 1 /\ i < Len(name) THEN SubSeq(name, i, Len(name)) ELSE << >>

\* Path.parts of an item: the parts of the resolved root, then its own
Parts(root, path) == root \o path

\* the directories of a tree: every proper, non-empty prefix of a file's path
DirsOf(t) == UNION {{SubSeq(f.path, 1, k) : k \in 1..(Len(f.path) - 1)} : f \in t}

IsDir(t, p) == p \in DirsOf(t)

IsFile(t, p) == \E f \in t : f.path = p

FileAt(t, p) == CHOOSE f \in t : f.path = p

\* project_path.rglob('*'): every file and directory below the root
RglobAll(t) == {f.path : f \in t} \cup DirsOf(t)

\* project_path.iterdir(): the names of the top-level entries
IterDir(t) == {<<p[1]>> : p \in RglobAll(t)}

\* the files below directory d
FilesUnder(t, d) == {f \in t : Len(f.path) > Len(d) /\ SubSeq(f.path, 1, Len(d)) = d}

\* values of a parsed JSON document: a missing key, a string, an object (its keys, in order), anything else
JAbsent == [shape |-> "absent", keys |-> << >>, s |-> << >>]

JStr(s) == [shape |-> "str", keys |-> << >>, s |-> s]

JDict(keys) == [shape |-> "dict", keys |-> keys, s |-> << >>]

JOther == [shape |-> "other", keys |-> << >>, s |-> << >>]

\* json.load raises on the file
NoJson == [kind |-> "invalid", dependencies |-> JAbsent, devDependencies |-> JAbsent, scripts |-> JAbsent,
           description |-> JAbsent, author |-> JAbsent, author_name |-> JAbsent, author_email |-> JAbsent]

\* configparser raises on the file
NoIni == [kind |-> "invalid", user_name |-> JAbsent, user_email |-> JAbsent]

\* ast.parse accepts the text read from the file, which has no docstring
NoPy == [parse |-> "ok", docstring |-> << >>]


---------------------------------------------------------------------------
(* What a read of a file returns                                           *)

\* the text of the listed lines, each with its newline; a run of blank
\* lines between two of them is one "\n"
RECURSIVE TextFrom(_, _)
TextFrom(at, prev) ==
    IF at = << >> THEN << >>
    ELSE (IF Head(at).no > prev + 1 THEN <<"\n">> ELSE << >>) \o Head(at).s \o <<"\n">> \o TextFrom(Tail(at), Head(at).no)

\* f.read(), and the concatenation of the lines `for line in f` yields
Text(f) == TextFrom(f.at, 0)

\* the lines `for line in f` yields that are not empty, in order (each without its newline)
Lines(f) == [i \in 1..Len(f.at) |-> f.at[i].s]

\* the first position j >= i of t whose character fails Test, Len(t) + 1 when there is none
SpanEnd(t, i, Test(_)) ==
    IF \E j \in i..Len(t) : ~Test(t[j])
    THEN CHOOSE j \in i..Len(t) : ~Test(t[j]) /\ \A k \in i..(j - 1) : Test(t[k])
    ELSE Len(t) + 1

\* the first position j >= i of t at which At holds, Len(t) + 1 when there is none:
\* where the search of a pattern that can only begin at such a position tries next
FirstPos(t, i, At(_)) ==
    IF \E j \in i..Len(t) : At(j)
    THEN CHOOSE j \in i..Len(t) : At(j) /\ \A k \in i..(j - 1) : ~At(k)
    ELSE Len(t) + 1

\* ^ under re.MULTILINE
AtLineStart(t, i) == i = 1 \/ (i > 1 /\ i <= Len(t) + 1 /\ t[i - 1] = "\n")

---------------------------------------------------------------------------
(* enhanced_readme_generator.py: the tables of analyze_project_structure   *)

\* the folders the scan loop skips
ScanIgnore == {<<".","g","i","t">>, <<"n","o","d","e","_","m","o","d","u","l","e","s">>, <<"_","_","p","y","c","a","c","h","e","_","_">>, <<"v","e","n","v">>, <<".","v","e","n","v">>, <<"d","i","s","t">>, <<"b","u","i","l","d">>, <<"t","a","r","g","e","t">>, <<".","i","d","e","a">>, <<".","v","s","c","o","d","e">>, <<"c","o","v","e","r","a","g","e">>}

\* the names the structure overview skips
StructureIgnore == {<<"n","o","d","e","_","m","o","d","u","l","e","s">>, <<"_","_","p","y","c","a","c","h","e","_","_">>, <<"v","e","n","v">>, <<".","v","e","n","v">>}

\* the folders the file count of a directory of the overview skips
CountIgnore == {<<"n","o","d","e","_","m","o","d","u","l","e","s">>, <<"_","_","p","y","c","a","c","h","e","_","_">>, <<"v","e","n","v">>}

language_map == {
    <<<<".","p","y">>, <<"P","y","t","h","o","n">>>>, <<<<".","j","s">>, <<"J","a","v","a","S","c","r","i","p","t">>>>, <<<<".","t","s">>, <<"T","y","p","e","S","c","r","i","p","t">>>>,
    <<<<".","j","s","x">>, <<"R","e","a","c","t"," ","(","J","S","X",")">>>>, <<<<".","t","s","x">>, <<"R","e","a","c","t"," ","(","T","y","p","e","S","c","r","i","p","t",")">>>>, <<<<".","j","a","v","a">>, <<"J","a","v","a">>>>,
    <<<<".","c","p","p">>, <<"C","+","+">>>>, <<<<".","c">>, <<"C">>>>, <<<<".","h">>, <<"C","/","C","+","+"," ","H","e","a","d","e","r">>>>, <<<<".","c","s">>, <<"C","#">>>>,
    <<<<".","p","h","p">>, <<"P","H","P">>>>, <<<<".","r","b">>, <<"R","u","b","y">>>>, <<<<".","g","o">>, <<"G","o">>>>, <<<<".","r","s">>, <<"R","u","s","t">>>>,
    <<<<".","s","w","i","f","t">>, <<"S","w","i","f","t">>>>, <<<<".","k","t">>, <<"K","o","t","l","i","n">>>>, <<<<".","s","c","a","l","a">>, <<"S","c","a","l","a">>>>, <<<<".","r">>, <<"R">>>>,
    <<<<".","m">>, <<"M","A","T","L","A","B","/","O","b","j","e","c","t","i","v","e","-","C">>>>, <<<<".","l","u","a">>, <<"L","u","a">>>>, <<<<".","p","l">>, <<"P","e","r","l">>>>,
    <<<<".","s","h">>, <<"S","h","e","l","l"," ","S","c","r","i","p","t">>>>, <<<<".","b","a","s","h">>, <<"B","a","s","h">>>>, <<<<".","h","t","m","l">>, <<"H","T","M","L">>>>, <<<<".","c","s","s">>, <<"C","S","S">>>>,
    <<<<".","s","c","s","s">>, <<"S","C","S","S">>>>, <<<<".","s","a","s","s">>, <<"S","a","s","s">>>>, <<<<".","l","e","s","s">>, <<"L","e","s","s">>>>, <<<<".","s","q","l">>, <<"S","Q","L">>>>,
    <<<<".","v","u","e">>, <<"V","u","e",".","j","s">>>>, <<<<".","s","v","e","l","t","e">>, <<"S","v","e","l","t","e">>>>, <<<<".","d","a","r","t">>, <<"D","a","r","t">>>>, <<<<".","x","m","l">>, <<"X","M","L">>>>,
    <<<<".","j","s","o","n">>, <<"J","S","O","N">>>>, <<<<".","y","a","m","l">>, <<"Y","A","M","L">>>>, <<<<".","y","m","l">>, <<"Y","A","M","L">>>>, <<<<".","m","d">>, <<"M","a","r","k","d","o","w","n">>>>,
    <<<<".","t","e","x">>, <<"L","a","T","e","X">>>>}

dependency_files == {
    <<<<"r","e","q","u","i","r","e","m","e","n","t","s",".","t","x","t">>, <<"P","y","t","h","o","n">>>>, <<<<"s","e","t","u","p",".","p","y">>, <<"P","y","t","h","o","n">>>>, <<<<"p","y","p","r","o","j","e","c","t",".","t","o","m","l">>, <<"P","y","t","h","o","n">>>>,
    <<<<"P","i","p","f","i","l","e">>, <<"P","y","t","h","o","n">>>>, <<<<"e","n","v","i","r","o","n","m","e","n","t",".","y","m","l">>, <<"C","o","n","d","a">>>>, <<<<"p","a","c","k","a","g","e",".","j","s","o","n">>, <<"N","o","d","e",".","j","s">>>>,
    <<<<"p","a","c","k","a","g","e","-","l","o","c","k",".","j","s","o","n">>, <<"N","o","d","e",".","j","s">>>>, <<<<"y","a","r","n",".","l","o","c","k">>, <<"Y","a","r","n">>>>, <<<<"p","n","p","m","-","l","o","c","k",".","y","a","m","l">>, <<"p","n","p","m">>>>,
    <<<<"G","e","m","f","i","l","e">>, <<"R","u","b","y">>>>, <<<<"G","e","m","f","i","l","e",".","l","o","c","k">>, <<"R","u","b","y">>>>, <<<<"p","o","m",".","x","m","l">>, <<"M","a","v","e","n"," ","(","J","a","v","a",")">>>>,
    <<<<"b","u","i","l","d",".","g","r","a","d","l","e">>, <<"G","r","a","d","l","e"," ","(","J","a","v","a",")">>>>, <<<<"C","a","r","g","o",".","t","o","m","l">>, <<"R","u","s","t">>>>, <<<<"g","o",".","m","o","d">>, <<"G","o">>>>,
    <<<<"g","o",".","s","u","m">>, <<"G","o">>>>, <<<<"c","o","m","p","o","s","e","r",".","j","s","o","n">>, <<"P","H","P">>>>, <<<<"P","o","d","f","i","l","e">>, <<"i","O","S","/","C","o","c","o","a","P","o","d","s">>>>,
    <<<<"p","u","b","s","p","e","c",".","y","a","m","l">>, <<"D","a","r","t","/","F","l","u","t","t","e","r">>>>}

config_files == {
    <<".","g","i","t","i","g","n","o","r","e">>, <<".","d","o","c","k","e","r","i","g","n","o","r","e">>, <<"D","o","c","k","e","r","f","i","l","e">>, <<"d","o","c","k","e","r","-","c","o","m","p","o","s","e",".","y","m","l">>, <<".","e","n","v",".","e","x","a","m","p","l","e">>,
    <<".","e","s","l","i","n","t","r","c">>, <<".","p","r","e","t","t","i","e","r","r","c">>, <<"t","s","c","o","n","f","i","g",".","j","s","o","n">>, <<"w","e","b","p","a","c","k",".","c","o","n","f","i","g",".","j","s">>, <<"v","i","t","e",".","c","o","n","f","i","g",".","j","s">>,
    <<".","b","a","b","e","l","r","c">>, <<"j","e","s","t",".","c","o","n","f","i","g",".","j","s">>, <<"p","y","t","e","s","t",".","i","n","i">>, <<"t","o","x",".","i","n","i">>, <<".","f","l","a","k","e","8">>, <<"m","y","p","y",".","i","n","i">>, <<"s","e","t","u","p",".","c","f","g">>}

\* key in d, for a dict d given as a set of <<key, value>>
HasKey(d, k) == \E p \in d : p[1] = k

\* d[key]
Lookup(d, k) == (CHOOSE p \in d : p[1] = k)[2]

\* the analysis dictionary as first assigned
analysis_init(root) == [
    project_name |-> Name(root),
    total_files |-> 0,
    total_lines |-> 0,
    file_types |-> << >>,
    languages |-> {},
    directories |-> << >>,
    main_files |-> << >>,
    dependencies |-> << >>,
    structure |-> << >>,
    config_files |-> << >>,
    test_files |-> 0,
    doc_files |-> << >>,
    npm_scripts |-> << >>]

\* d[k] = v on a dict d kept as a function
DictSet(d, k, v) == [x \in (DOMAIN d) \cup {k} |-> IF x = k THEN v ELSE d[x]]

\* d.get(k, default)
DictGet(d, k, default) == IF k \in DOMAIN d THEN d[k] ELSE default

---------------------------------------------------------------------------
(* enhanced_readme_generator.py: extract_dependencies                      *)

\* line.strip().split('==')[0].split('>=')[0].split('~=')[0]
requirement_name(line) == split_first(split_first(split_first(strip(line), <<"=","=">>), <<">","=">>), <<"~","=">>)

\* the filter of the comprehension: line.strip() and not line.startswith('#')
requirement_kept(line) == strip(line) # << >> /\ ~startswith(line, <<"#">>)

\* the list comprehension over the lines of requirements.txt
requirements_deps(f) ==
    LET ls == SelectSeq(Lines(f), requirement_kept)
    IN  [i \in 1..Len(ls) |-> requirement_name(ls[i])]

\* {**a, **b} for two dicts given by their lists of keys: the keys of a, then the new keys of b
merge_keys(a, b) == a \o SelectSeq(b, LAMBDA k : ~InSeq(k, a))

\* re.findall(r'^(\w+)\s*=', content, re.MULTILINE), from position start on
RECURSIVE findall_cargo(_, _)
findall_cargo(t, start) ==
    LET i == FirstPos(t, start, LAMBDA j : AtLineStart(t, j)) IN
    IF i > Len(t) THEN << >>
    ELSE LET j == SpanEnd(t, i, IsWord)
             k == SpanEnd(t, j, IsSpace)
         IN  IF AtLineStart(t, i) /\ j > i /\ k <= Len(t) /\ t[k] = "="
             THEN <<SubSeq(t, i, j - 1)>> \o findall_cargo(t, k + 1)
             ELSE findall_cargo(t, i + 1)

\* the class [a-zA-Z0-9_-]
IsPyprojectChar(c) == IsUpper(c) \/ IsLower(c) \/ IsDigit(c) \/ c \in {"_", "-"}

\* re.findall(r'([a-zA-Z0-9_-]+)\s*[=~>]', content), from position start on
RECURSIVE findall_pyproject(_, _)
findall_pyproject(t, start) ==
    LET i == FirstPos(t, start, LAMBDA j : IsPyprojectChar(t[j])) IN
    IF i > Len(t) THEN << >>
    ELSE LET j == SpanEnd(t, i, IsPyprojectChar)
             k == SpanEnd(t, j, IsSpace)
         IN  IF j > i /\ k <= Len(t) /\ t[k] \in {"=", "~", ">"}
             THEN <<SubSeq(t, i, j - 1)>> \o findall_pyproject(t, k + 1)
             ELSE findall_pyproject(t, j)

\* the class [^"\']
NotQuote(c) == c \notin {"\"", "'"}

\* re.findall(r'^\s*(?:gem|require)\s+["\']([^"\']+)', content, re.MULTILINE), from position start on
RECURSIVE findall_gem(_, _)
findall_gem(t, start) ==
    LET i == FirstPos(t, start, LAMBDA j : AtLineStart(t, j)) IN
    IF i > Len(t) THEN << >>
    ELSE LET a == SpanEnd(t, i, IsSpace)
             b == IF MatchAt(t, a, <<"g","e","m">>) THEN a + 3 ELSE IF MatchAt(t, a, <<"r","e","q","u","i","r","e">>) THEN a + 7 ELSE 0
             c == IF b = 0 THEN 0 ELSE SpanEnd(t, b, IsSpace)
             d == IF c = 0 \/ c > Len(t) THEN 0 ELSE SpanEnd(t, c + 1, NotQuote)
         IN  IF AtLineStart(t, i) /\ b > 0 /\ c > b /\ c <= Len(t) /\ ~NotQuote(t[c]) /\ d > c + 1
             THEN <<SubSeq(t, c + 1, d - 1)>> \o findall_gem(t, d)
             ELSE findall_gem(t, i + 1)

\* open(file_path, 'r', encoding='utf-8') and a read of it succeed
OpensUtf8(f) == f.mode = "ok"

\* json.load(f) returns a dict
LoadsDict(f) == OpensUtf8(f) /\ f.json.kind = "dict"

\* data.get(key, {}) can be unpacked with **: it is absent or a dict
Unpacks(v) == v.shape \in {"absent", "dict"}

\* extracted with each branch guarded by its own `except: deps = []`: a manifest that
\* cannot be read or parsed assigns the empty list
extracted_or_empty(f) ==
    LET name == Name(f.path)
    IN  IF name = <<"r","e","q","u","i","r","e","m","e","n","t","s",".","t","x","t">>
        THEN IF OpensUtf8(f) THEN {Take(requirements_deps(f), 15)} ELSE {<< >>}
        ELSE IF name = <<"p","a","c","k","a","g","e",".","j","s","o","n">>
        THEN IF LoadsDict(f) /\ Unpacks(f.json.dependencies) /\ Unpacks(f.json.devDependencies)
             THEN {Take(merge_keys(f.json.dependencies.keys, f.json.devDependencies.keys), 15)}
             ELSE {<< >>}
        ELSE IF name = <<"C","a","r","g","o",".","t","o","m","l">>
        THEN IF OpensUtf8(f) THEN {Take(findall_cargo(Text(f), 1), 15)} ELSE {<< >>}
        ELSE IF name = <<"p","y","p","r","o","j","e","c","t",".","t","o","m","l">>
        THEN IF OpensUtf8(f) THEN {Take(findall_pyproject(Text(f), 1), 15)} ELSE {<< >>}
        ELSE IF name \in {<<"G","e","m","f","i","l","e">>, <<"g","o",".","m","o","d">>}
        THEN IF OpensUtf8(f) THEN {Take(findall_gem(Text(f), 1), 15)} ELSE {<< >>}
        ELSE {}

\* the new value of analysis['dependencies'][tech], in a one-element set; {} when
\* the branch for this file assigns nothing or raises before it assigns
extracted(f) ==
    LET name == Name(f.path)
    IN  IF name = <<"r","e","q","u","i","r","e","m","e","n","t","s",".","t","x","t">>
        THEN IF OpensUtf8(f) THEN {Take(requirements_deps(f), 15)} ELSE {}
        ELSE IF name = <<"p","a","c","k","a","g","e",".","j","s","o","n">>
        THEN IF LoadsDict(f) /\ Unpacks(f.json.dependencies) /\ Unpacks(f.json.devDependencies)
             THEN {Take(merge_keys(f.json.dependencies.keys, f.json.devDependencies.keys), 15)}
             ELSE {}
        ELSE IF name = <<"C","a","r","g","o",".","t","o","m","l">>
        THEN IF OpensUtf8(f) THEN {Take(findall_cargo(Text(f), 1), 15)} ELSE {}
        ELSE IF name = <<"p","y","p","r","o","j","e","c","t",".","t","o","m","l">>
        THEN IF OpensUtf8(f) THEN {Take(findall_pyproject(Text(f), 1), 15)} ELSE {}
        ELSE IF name \in {<<"G","e","m","f","i","l","e">>, <<"g","o",".","m","o","d">>}
        THEN IF OpensUtf8(f) THEN {Take(findall_gem(Text(f), 1), 15)} ELSE {}
        ELSE {}

\* extract_dependencies with `if tech not in analysis['dependencies']` before each
\* assignment: an entry already populated is kept
extract_dependencies_keeps_first(f, a, tech) ==
    LET got == extracted(f)
        a1 == IF got = {} \/ tech \in DOMAIN a.dependencies THEN a
              ELSE [a EXCEPT !.dependencies = DictSet(@, tech, CHOOSE d \in got : TRUE)]
    IN  IF got # {} /\ Name(f.path) = <<"p","a","c","k","a","g","e",".","j","s","o","n">> /\ f.json.scripts.shape # "absent"
        THEN [a1 EXCEPT !.npm_scripts = f.json.scripts.keys]
        ELSE a1

\* extract_dependencies(file_path, analysis, tech): the analysis it leaves
extract_dependencies(f, a, tech) ==
    LET got == extracted(f)
        a1 == IF got = {} THEN a
              ELSE [a EXCEPT !.dependencies = DictSet(@, tech, CHOOSE d \in got : TRUE)]
    IN  IF got # {} /\ Name(f.path) = <<"p","a","c","k","a","g","e",".","j","s","o","n">> /\ f.json.scripts.shape # "absent"
        THEN [a1 EXCEPT !.npm_scripts = f.json.scripts.keys]
        ELSE a1

---------------------------------------------------------------------------
(* enhanced_readme_generator.py: analyze_project_structure                 *)

\* any(part in [...] for part in item.parts)
ScanSkips(root, path) == \E i \in 1..Len(Parts(root, path)) : Parts(root, path)[i] \in ScanIgnore

\* item.parent.name
ParentName(root, path) ==
    LET ps == Parts(root, path)
    IN  IF Len(ps) >= 2 /\ ps[Len(ps) - 1] # <<"/">> THEN ps[Len(ps) - 1] ELSE << >>

\* sum(1 for _ in f) under open(item, 'r', encoding='utf-8', errors='ignore'), 0 when the open raises
counted_lines(f) == IF f.mode = "unreadable" THEN 0 ELSE f.n

\* 'test' in item.name.lower() or item.parent.name.lower() in ['tests', 'test', '__tests__']
is_test_file(root, path) ==
    \/ contains(lower(Name(path)), <<"t","e","s","t">>)
    \/ lower(ParentName(root, path)) \in {<<"t","e","s","t","s">>, <<"t","e","s","t">>, <<"_","_","t","e","s","t","s","_","_">>}

\* ext in ['.md', '.rst', '.txt'] and item.name.upper() not in ['LICENSE', 'README.MD']
is_doc_file(name, ext) ==
    /\ ext \in {<<".","m","d">>, <<".","r","s","t">>, <<".","t","x","t">>}
    /\ upper(name) \notin {<<"L","I","C","E","N","S","E">>, <<"R","E","A","D","M","E",".","M","D">>}

\* item.name in config_files or item.name.startswith('.env')
is_config_file(name) == name \in config_files \/ startswith(name, <<".","e","n","v">>)

\* the body of `if item.is_file():` for file f
scan_file(a, root, f) ==
    LET name == Name(f.path)
        ext == lower(suffix(name))
        a1 == [a EXCEPT !.total_files = @ + 1,
                        !.total_lines = @ + counted_lines(f)]
        a2 == IF ext = << >> THEN a1
              ELSE [a1 EXCEPT !.file_types = DictSet(@, ext, DictGet(@, ext, 0) + 1),
                              !.languages = IF HasKey(language_map, ext) THEN @ \cup {Lookup(language_map, ext)} ELSE @]
        a3 == IF is_test_file(root, f.path) THEN [a2 EXCEPT !.test_files = @ + 1] ELSE a2
        a4 == IF is_doc_file(name, ext) THEN [a3 EXCEPT !.doc_files = Append(@, name)] ELSE a3
        a5 == IF HasKey(dependency_files, name)
              THEN extract_dependencies(f, [a4 EXCEPT !.main_files = Append(@, name)], Lookup(dependency_files, name))
              ELSE a4
    IN  IF is_config_file(name) THEN [a5 EXCEPT !.config_files = Append(@, name)] ELSE a5

\* the body of `for item in project_path.rglob('*'):` for the item at path
scan_item(a, root, t, path) ==
    IF ScanSkips(root, path) THEN a
    ELSE IF IsFile(t, path) THEN scan_file(a, root, FileAt(t, path))
    ELSE IF IsDir(t, path) /\ Len(path) = 1 THEN [a EXCEPT !.directories = Append(@, Name(path))]
    ELSE a

\* re.match(r'.*_\d{8}_\d{6}\.(csv|json|txt)$', name) with the alternative ext
timestamp_tail(name, ext) ==
    LET b == Len(name) - Len(ext) - 16
    IN  /\ b >= 1
        /\ name[b] = "_"
        /\ \A i \in (b + 1)..(b + 8) : IsDigit(name[i])
        /\ name[b + 9] = "_"
        /\ \A i \in (b + 10)..(b + 15) : IsDigit(name[i])
        /\ name[b + 16] = "."
        /\ SubSeq(name, b + 17, Len(name)) = ext

\* re.match(r'.*_\d{8}_\d{6}\.(csv|json|txt)$', item.name)
is_output_file(name) == \E ext \in {<<"c","s","v">>, <<"j","s","o","n">>, <<"t","x","t">>} : timestamp_tail(name, ext)

\* item.name.startswith('.') or item.name in ['node_modules', '__pycache__', 'venv', '.venv']
structure_skips(name) == startswith(name, <<".">>) \/ name \in StructureIgnore

\* sum(1 for _ in item.rglob('*') if _.is_file() and not any(x in _.parts for x in [...]))
file_count(root, t, d) ==
    Cardinality({f \in FilesUnder(t, d) : ~\E i \in 1..Len(Parts(root, f.path)) : Parts(root, f.path)[i] \in CountIgnore})

\* f"{item.name}/ ({file_count} files)"
dir_entry(name, count) == name \o <<"/"," ","(">> \o str_int(count) \o <<" ","f","i","l","e","s",")">>

\* the entries the structure loop appends for the sorted top-level names
RECURSIVE structure_of(_, _, _)
structure_of(root, t, names) ==
    IF names = << >> THEN << >>
    ELSE LET name == Head(names)
             rest == structure_of(root, t, Tail(names))
         IN  IF structure_skips(name) \/ is_output_file(name) THEN rest
             ELSE IF IsDir(t, <<name>>) THEN <<dir_entry(name, file_count(root, t, <<name>>))>> \o rest
             ELSE <<name>> \o rest

\* sorted(project_path.iterdir()), as names
sorted_iterdir(t) == SortedStrs({p[1] : p \in IterDir(t)})

\* One pass of the scan loop: the listing order of rglob is the file system's,
\* so any item not yet visited may come next.
ScanItem ==
    /\ pc = "scan"
    /\ \E path \in todo :
        /\ analysis' = scan_item(analysis, rootParts, tree, path)
        /\ todo' = todo \ {path}
    /\ UNCHANGED <<rootParts, tree, env, pc, info, entry, rootKind, out, sidecar, user_data, answers, lastRead, project_type, installed, log, now>>

\* The scan loop is over: the structure overview, the sort of languages, the return.
BuildStructure ==
    /\ pc = "scan"
    /\ todo = {}
    /\ analysis' = [analysis EXCEPT !.structure = structure_of(rootParts, tree, sorted_iterdir(tree)),
                                    !.languages = SortedStrs(@)]
    /\ pc' = "done"
    /\ UNCHANGED <<rootParts, tree, env, todo, info, entry, rootKind, out, sidecar, user_data, answers, lastRead, project_type, installed, log, now>>

NextScan == ScanItem \/ BuildStructure

---------------------------------------------------------------------------
(* auto_readme_info.py: AutoReadmeInfoGenerator                            *)

\* path.exists(), for a path below the root
Exists(t, path) == IsFile(t, path) \/ IsDir(t, path)

\* _read_file_safe(filepath, max_lines): the lines read that are not empty.
\* `[next(f) for _ in range(max_lines) if f]` calls next(f) max_lines times,
\* so a file of fewer lines raises StopIteration, which the bare except
\* turns into "".
read_file_safe(t, path, max_lines) ==
    IF ~IsFile(t, path) THEN << >>
    ELSE LET f == FileAt(t, path)
         IN  IF f.mode = "unreadable" \/ f.n < max_lines THEN << >>
             ELSE SelectSeq(f.at, LAMBDA l : l.no <= max_lines)

\* the str _read_file_safe returns
read_text(t, path, max_lines) == TextFrom(read_file_safe(t, path, max_lines), 0)

\* the default of max_lines
DefaultMaxLines == 500

priority_patterns == <<<<"m","a","i","n",".","p","y">>, <<"a","p","p",".","p","y">>, <<"r","u","n",".","p","y">>, <<"s","e","r","v","e","r",".","p","y">>, <<"i","n","d","e","x",".","p","y">>, <<"_","_","m","a","i","n","_","_",".","p","y">>, <<"m","a","n","a","g","e",".","p","y">>>>

\* project_path.glob('*.py'), as names, in the listing order of the root
glob_py(order) == SelectSeq(order, LAMBDA n : endswith(n, <<".","p","y">>))

\* _find_main_files(), as names
find_main_files(t, order) ==
    LET found == SelectSeq(priority_patterns, LAMBDA n : Exists(t, <<n>>))
    IN  IF found # << >> THEN found
        ELSE Take(SelectSeq(glob_py(order), LAMBDA n : ~startswith(n, <<"_">>) /\ n # <<"s","e","t","u","p",".","p","y">>), 5)

\* sep.join(ss)
RECURSIVE join(_, _)
join(ss, sep) ==
    IF ss = << >> THEN << >>
    ELSE IF Len(ss) = 1 THEN ss[1]
    ELSE ss[1] \o sep \o join(Tail(ss), sep)

\* re.search(key + r'\s*=\s*["\']([^"\']+)["\']', t) from position start on: group(1) as a JSON-like value
RECURSIVE search_assignment(_, _, _)
search_assignment(t, key, start) ==
    LET i == FirstPos(t, start, LAMBDA j : MatchAt(t, j, key)) IN
    IF i > Len(t) THEN JAbsent
    ELSE LET a == SpanEnd(t, i + Len(key), IsSpace)
             b == IF a > Len(t) THEN a ELSE SpanEnd(t, a + 1, IsSpace)
             c == IF b >= Len(t) THEN b + 1 ELSE SpanEnd(t, b + 1, NotQuote)
         IN  IF /\ MatchAt(t, i, key)
                /\ a <= Len(t) /\ t[a] = "="
                /\ b <= Len(t) /\ ~NotQuote(t[b])
                /\ c > b + 1 /\ c <= Len(t)
             THEN JStr(SubSeq(t, b + 1, c - 1))
             ELSE search_assignment(t, key, i + 1)

\* the README loop of _generate_description, for one name
readme_source(t, name) ==
    LET ls == SelectSeq(read_file_safe(t, <<name>>, 20), LAMBDA l : strip(l.s) # << >> /\ ~startswith(l.s, <<"#">>))
    IN  IF Exists(t, <<name>>) /\ ls # << >> THEN <<JStr(Take(strip(ls[1].s), 200))>> ELSE << >>

\* '. '.join(s.strip() for s in docstring.split('.')[:2] if s.strip()) + '.'
docstring_desc(d) ==
    LET i == find(d, <<".">>)
        pieces == IF i = 0 THEN <<d>> ELSE <<SubSeq(d, 1, i - 1), split_first(SubSeq(d, i + 1, Len(d)), <<".">>)>>
        stripped == [k \in 1..Len(pieces) |-> strip(pieces[k])]
    IN  join(SelectSeq(stripped, LAMBDA s : s # << >>), <<"."," ">>) \o <<".">>

\* the class ["\'{3}]
IsFallbackQuote(c) == c \in {"\"", "'", "{", "3", "}"}

\* re.search(r'^["\'{3}](.*?)["\'{3}]', content, re.MULTILINE | re.DOTALL) from position start on,
\* then match.group(1).strip().split('\n')[0]
RECURSIVE fallback_docstring(_, _)
fallback_docstring(t, start) ==
    LET i == FirstPos(t, start, LAMBDA j : AtLineStart(t, j)) IN
    IF i > Len(t) THEN << >>
    ELSE IF AtLineStart(t, i) /\ IsFallbackQuote(t[i]) /\ \E j \in (i + 1)..Len(t) : IsFallbackQuote(t[j])
    THEN LET j == SpanEnd(t, i + 1, LAMBDA c : ~IsFallbackQuote(c))
         IN  <<JStr(split_first(strip(SubSeq(t, i + 1, j - 1)), <<"\n">>))>>
    ELSE fallback_docstring(t, i + 1)

\* the docstring loop of _generate_description, for one main file
docstring_source(t, name) ==
    LET ls == read_file_safe(t, <<name>>, 50)
        py == FileAt(t, <<name>>).py
    IN  IF ls = << >> THEN << >>
        ELSE IF py.parse = "ok" THEN (IF py.docstring # << >> THEN <<JStr(docstring_desc(py.docstring))>> ELSE << >>)
        ELSE fallback_docstring(TextFrom(ls, 0), 1)

\* with open(package_json, 'r', encoding='utf-8') as f: data = json.load(f), as a dict
package_json_dict(t) ==
    /\ IsFile(t, <<<<"p","a","c","k","a","g","e",".","j","s","o","n">>>>)
    /\ LoadsDict(FileAt(t, <<<<"p","a","c","k","a","g","e",".","j","s","o","n">>>>))

package_json(t) == FileAt(t, <<<<"p","a","c","k","a","g","e",".","j","s","o","n">>>>).json

\* the package.json block of _generate_description
package_source(t) ==
    IF package_json_dict(t) /\ package_json(t).description.shape # "absent"
    THEN <<package_json(t).description>>
    ELSE << >>

\* the setup.py block of _generate_description
setup_source(t) ==
    LET m == search_assignment(read_text(t, <<<<"s","e","t","u","p",".","p","y">>>>, DefaultMaxLines), <<"d","e","s","c","r","i","p","t","i","o","n">>, 1)
    IN  IF Exists(t, <<<<"s","e","t","u","p",".","p","y">>>>) /\ m.shape # "absent" THEN <<m>> ELSE << >>

\* the keywords of _infer_from_structure, in the order of the dict
structure_keywords == <<
    <<<<"w","e","b">>, {<<"f","l","a","s","k">>, <<"d","j","a","n","g","o">>, <<"f","a","s","t","a","p","i">>, <<"a","p","p">>, <<"s","e","r","v","e","r">>, <<"a","p","i">>, <<"r","o","u","t","e">>}>>,
    <<<<"d","a","t","a">>, {<<"d","a","t","a">>, <<"a","n","a","l","y","s","i","s">>, <<"p","a","n","d","a","s">>, <<"n","u","m","p","y">>, <<"v","i","s","u","a","l","i","z","a","t","i","o","n">>, <<"p","l","o","t">>}>>,
    <<<<"m","l">>, {<<"m","o","d","e","l">>, <<"t","r","a","i","n">>, <<"p","r","e","d","i","c","t">>, <<"n","e","u","r","a","l">>, <<"l","e","a","r","n","i","n","g">>, <<"a","i">>}>>,
    <<<<"a","u","t","o","m","a","t","i","o","n">>, {<<"s","c","r","i","p","t">>, <<"a","u","t","o","m","a","t","e">>, <<"b","o","t">>, <<"s","c","r","a","p","e">>, <<"c","r","a","w","l","e","r">>}>>,
    <<<<"n","e","t","w","o","r","k">>, {<<"n","e","t","w","o","r","k">>, <<"s","c","a","n">>, <<"s","o","c","k","e","t">>, <<"c","o","n","n","e","c","t","i","o","n">>, <<"p","i","n","g">>}>>,
    <<<<"g","u","i">>, {<<"g","u","i">>, <<"t","k","i","n","t","e","r">>, <<"q","t">>, <<"w","i","n","d","o","w">>, <<"i","n","t","e","r","f","a","c","e">>}>>,
    <<<<"c","l","i">>, {<<"c","l","i">>, <<"c","o","m","m","a","n","d">>, <<"t","e","r","m","i","n","a","l">>, <<"a","r","g","p","a","r","s","e">>}>>,
    <<<<"g","a","m","e">>, {<<"g","a","m","e">>, <<"p","l","a","y","e","r">>, <<"s","c","o","r","e">>, <<"p","y","g","a","m","e">>}>>,
    <<<<"s","e","c","u","r","i","t","y">>, {<<"s","e","c","u","r","i","t","y">>, <<"e","n","c","r","y","p","t">>, <<"d","e","c","r","y","p","t">>, <<"h","a","s","h">>, <<"a","u","t","h">>}>> >>

\* term in ' '.join(files): no term holds a space, so it lies within one name
in_py_names(t, term) == \E f \in t : endswith(Name(f.path), <<".","p","y">>) /\ contains(lower(Name(f.path)), term)

\* _infer_from_structure()
infer_from_structure(t, project_name) ==
    LET hit == SelectSeq(structure_keywords, LAMBDA e : \E term \in e[2] : in_py_names(t, term))
        detected == [i \in 1..Len(hit) |-> hit[i][1]]
    IN  IF InSeq(<<"n","e","t","w","o","r","k">>, detected) /\ in_py_names(t, <<"s","c","a","n">>) THEN <<"A"," ","n","e","t","w","o","r","k"," ","s","c","a","n","n","i","n","g"," ","a","n","d"," ","a","n","a","l","y","s","i","s"," ","t","o","o","l">>
        ELSE IF InSeq(<<"w","e","b">>, detected) THEN <<"A"," ","w","e","b"," ","a","p","p","l","i","c","a","t","i","o","n"," ","b","u","i","l","t"," ","w","i","t","h"," ","m","o","d","e","r","n"," ","f","r","a","m","e","w","o","r","k","s">>
        ELSE IF InSeq(<<"d","a","t","a">>, detected) THEN <<"A"," ","d","a","t","a"," ","a","n","a","l","y","s","i","s"," ","a","n","d"," ","v","i","s","u","a","l","i","z","a","t","i","o","n"," ","t","o","o","l">>
        ELSE IF InSeq(<<"m","l">>, detected) THEN <<"A"," ","m","a","c","h","i","n","e"," ","l","e","a","r","n","i","n","g"," ","a","p","p","l","i","c","a","t","i","o","n">>
        ELSE IF InSeq(<<"a","u","t","o","m","a","t","i","o","n">>, detected) THEN <<"A","n"," ","a","u","t","o","m","a","t","i","o","n"," ","s","c","r","i","p","t"," ","f","o","r"," ","s","t","r","e","a","m","l","i","n","i","n","g"," ","t","a","s","k","s">>
        ELSE IF detected # << >> THEN <<"A"," ">> \o detected[1] \o <<" ","a","p","p","l","i","c","a","t","i","o","n">>
        ELSE <<"A"," ","P","y","t","h","o","n","-","b","a","s","e","d"," ">> \o project_name \o <<" ","a","p","p","l","i","c","a","t","i","o","n">>

\* description_sources before the inference from the structure
description_sources(t, order) ==
    readme_source(t, <<"R","E","A","D","M","E",".","m","d">>) \o readme_source(t, <<"R","E","A","D","M","E",".","t","x","t">>) \o readme_source(t, <<"r","e","a","d","m","e",".","m","d">>)
    \o Concat([i \in 1..Len(find_main_files(t, order)) |-> docstring_source(t, find_main_files(t, order)[i])])
    \o package_source(t)
    \o setup_source(t)

\* _generate_description(): a JSON-like value, a str unless package.json gives something else
generate_description(t, order, project_name) ==
    LET sources == description_sources(t, order)
    IN  IF sources = << >> THEN JStr(infer_from_structure(t, project_name)) ELSE sources[1]

\* the class [a-z0-9_]
IsDefChar(c) == IsLower(c) \/ IsDigit(c) \/ c = "_"

\* re.findall(r'def\s+([a-z_][a-z0-9_]*)\s*\(', content), from position start on
RECURSIVE findall_def(_, _)
findall_def(t, start) ==
    LET i == FirstPos(t, start, LAMBDA j : MatchAt(t, j, <<"d","e","f">>)) IN
    IF i > Len(t) THEN << >>
    ELSE LET a == SpanEnd(t, i + 3, IsSpace)
             b == IF a > Len(t) THEN a ELSE SpanEnd(t, a + 1, IsDefChar)
             c == SpanEnd(t, b, IsSpace)
         IN  IF /\ MatchAt(t, i, <<"d","e","f">>)
                /\ a > i + 3 /\ a <= Len(t) /\ (IsLower(t[a]) \/ t[a] = "_")
                /\ c <= Len(t) /\ t[c] = "("
             THEN <<SubSeq(t, a, b - 1)>> \o findall_def(t, c + 1)
             ELSE findall_def(t, i + 1)

\* the class [a-zA-Z0-9]
IsAlnum(c) == IsLower(c) \/ IsUpper(c) \/ IsDigit(c)

\* re.findall(r'class\s+([A-Z][a-zA-Z0-9]*)', content), from position start on
RECURSIVE findall_class(_, _)
findall_class(t, start) ==
    LET i == FirstPos(t, start, LAMBDA j : MatchAt(t, j, <<"c","l","a","s","s">>)) IN
    IF i > Len(t) THEN << >>
    ELSE LET a == SpanEnd(t, i + 5, IsSpace)
             b == IF a > Len(t) THEN a ELSE SpanEnd(t, a + 1, IsAlnum)
         IN  IF MatchAt(t, i, <<"c","l","a","s","s">>) /\ a > i + 5 /\ a <= Len(t) /\ IsUpper(t[a])
             THEN <<SubSeq(t, a, b - 1)>> \o findall_class(t, b)
             ELSE findall_class(t, i + 1)

\* str.title()
title(s) == [i \in 1..Len(s) |->
    IF i = 1 \/ ~(IsLower(s[i - 1]) \/ IsUpper(s[i - 1])) THEN upper_char(s[i]) ELSE lower_char(s[i])]

\* re.sub(r'([A-Z])', r' \1', cls)
RECURSIVE space_capitals(_)
space_capitals(s) ==
    IF s = << >> THEN << >>
    ELSE (IF IsUpper(s[1]) THEN <<" ", s[1]>> ELSE <<s[1]>>) \o space_capitals(Tail(s))

\* the filter of public_funcs
is_public_func(f) == ~startswith(f, <<"_">>) /\ f \notin {<<"m","a","i","n">>, <<"r","u","n">>, <<"s","e","t","u","p">>, <<"i","n","i","t">>}

\* the features the first loop appends for one main file
function_features(t, name) ==
    LET funcs == findall_def(read_text(t, <<name>>, DefaultMaxLines), 1)
        public_funcs == Take(SelectSeq(funcs, is_public_func), 5)
    IN  [i \in 1..Len(public_funcs) |-> title(replace_char(public_funcs[i], "_", " "))]

\* the features the second loop appends for one main file
class_features(t, name) ==
    LET classes == Take(findall_class(read_text(t, <<name>>, DefaultMaxLines), 1), 3)
    IN  [i \in 1..Len(classes) |-> strip(space_capitals(classes[i])) \o <<" ","i","m","p","l","e","m","e","n","t","a","t","i","o","n">>]

\* feature_indicators, in the order of the dict
feature_indicators == <<
    <<<<"e","x","p","o","r","t">>, <<"D","a","t","a"," ","e","x","p","o","r","t"," ","t","o"," ","m","u","l","t","i","p","l","e"," ","f","o","r","m","a","t","s">>>>,
    <<<<"i","m","p","o","r","t">>, <<"D","a","t","a"," ","i","m","p","o","r","t"," ","f","r","o","m"," ","v","a","r","i","o","u","s"," ","s","o","u","r","c","e","s">>>>,
    <<<<"c","s","v">>, <<"C","S","V"," ","f","i","l","e"," ","p","r","o","c","e","s","s","i","n","g">>>>,
    <<<<"j","s","o","n">>, <<"J","S","O","N"," ","d","a","t","a"," ","h","a","n","d","l","i","n","g">>>>,
    <<<<"a","p","i">>, <<"R","E","S","T","f","u","l"," ","A","P","I"," ","i","n","t","e","g","r","a","t","i","o","n">>>>,
    <<<<"d","a","t","a","b","a","s","e">>, <<"D","a","t","a","b","a","s","e"," ","c","o","n","n","e","c","t","i","v","i","t","y">>>>,
    <<<<"t","h","r","e","a","d","i","n","g">>, <<"M","u","l","t","i","-","t","h","r","e","a","d","e","d"," ","p","r","o","c","e","s","s","i","n","g">>>>,
    <<<<"a","s","y","n","c">>, <<"A","s","y","n","c","h","r","o","n","o","u","s"," ","o","p","e","r","a","t","i","o","n","s">>>>,
    <<<<"l","o","g","g","i","n","g">>, <<"C","o","m","p","r","e","h","e","n","s","i","v","e"," ","l","o","g","g","i","n","g"," ","s","y","s","t","e","m">>>>,
    <<<<"c","o","n","f","i","g">>, <<"C","o","n","f","i","g","u","r","a","b","l","e"," ","s","e","t","t","i","n","g","s">>>>,
    <<<<"c","l","i">>, <<"C","o","m","m","a","n","d","-","l","i","n","e"," ","i","n","t","e","r","f","a","c","e">>>>,
    <<<<"g","u","i">>, <<"G","r","a","p","h","i","c","a","l"," ","u","s","e","r"," ","i","n","t","e","r","f","a","c","e">>>>,
    <<<<"r","e","p","o","r","t">>, <<"R","e","p","o","r","t"," ","g","e","n","e","r","a","t","i","o","n">>>>,
    <<<<"s","c","a","n">>, <<"N","e","t","w","o","r","k","/","s","y","s","t","e","m"," ","s","c","a","n","n","i","n","g">>>>,
    <<<<"m","o","n","i","t","o","r">>, <<"R","e","a","l","-","t","i","m","e"," ","m","o","n","i","t","o","r","i","n","g">>>>,
    <<<<"v","i","s","u","a","l","i","z","a","t","i","o","n">>, <<"D","a","t","a"," ","v","i","s","u","a","l","i","z","a","t","i","o","n">>>>>>

\* the keyword loop: features after the indicators from the k-th on
RECURSIVE keyword_features(_, _, _)
keyword_features(features, content, k) ==
    IF k > Len(feature_indicators) THEN features
    ELSE IF contains(content, feature_indicators[k][1]) /\ ~InSeq(feature_indicators[k][2], features)
    THEN keyword_features(Append(features, feature_indicators[k][2]), content, k + 1)
    ELSE keyword_features(features, content, k + 1)

generic_features == <<<<"C","o","r","e"," ","f","u","n","c","t","i","o","n","a","l","i","t","y"," ","i","m","p","l","e","m","e","n","t","a","t","i","o","n">>, <<"E","a","s","y","-","t","o","-","u","s","e"," ","i","n","t","e","r","f","a","c","e">>, <<"E","x","t","e","n","s","i","b","l","e"," ","a","r","c","h","i","t","e","c","t","u","r","e">>>>

\* ' '.join(self._read_file_safe(f) for f in self._find_main_files())
all_content(t, mains) == join([i \in 1..Len(mains) |-> read_text(t, <<mains[i]>>, DefaultMaxLines)], <<" ">>)

\* the list of features before the final slice
features_found(t, order) ==
    LET mains == find_main_files(t, order)
        funcs == Concat([i \in 1..Len(mains) |-> function_features(t, mains[i])])
        classes == Concat([i \in 1..Len(mains) |-> class_features(t, mains[i])])
        found == keyword_features(funcs \o classes, lower(all_content(t, mains)), 1)
    IN  IF found = << >> THEN generic_features ELSE found

\* _extract_features()
extract_features(t, order) == Take(features_found(t, order), 8)

license_files == <<<<"L","I","C","E","N","S","E">>, <<"L","I","C","E","N","S","E",".","t","x","t">>, <<"L","I","C","E","N","S","E",".","m","d">>, <<"l","i","c","e","n","s","e">>, <<"l","i","c","e","n","s","e",".","t","x","t">>>>

\* the body of the loop of _detect_license for one existing file: the identifier
\* returned, in a one-element set; {} when the loop goes on to the next name
license_of(content) ==
    IF contains(content, <<"m","i","t"," ","l","i","c","e","n","s","e">>) THEN {<<"M","I","T">>}
    ELSE IF contains(content, <<"a","p","a","c","h","e">>) /\ contains(content, <<"2",".","0">>) THEN {<<"A","p","a","c","h","e","-","2",".","0">>}
    ELSE IF contains(content, <<"g","n","u"," ","g","e","n","e","r","a","l"," ","p","u","b","l","i","c"," ","l","i","c","e","n","s","e">>)
    THEN (IF contains(content, <<"v","e","r","s","i","o","n"," ","3">>) THEN {<<"G","P","L","-","3",".","0">>}
          ELSE IF contains(content, <<"v","e","r","s","i","o","n"," ","2">>) THEN {<<"G","P","L","-","2",".","0">>}
          ELSE {})
    ELSE IF contains(content, <<"b","s","d">>) THEN {<<"B","S","D","-","3","-","C","l","a","u","s","e">>}
    ELSE {}

\* _detect_license(), from the k-th name of license_files on
RECURSIVE detect_license_from(_, _)
detect_license_from(t, k) ==
    IF k > Len(license_files) THEN <<"M","I","T">>
    ELSE LET got == IF Exists(t, <<license_files[k]>>)
                    THEN license_of(lower(read_text(t, <<license_files[k]>>, 20)))
                    ELSE {}
         IN  IF got # {} THEN CHOOSE x \in got : TRUE ELSE detect_license_from(t, k + 1)

\* _detect_license()
detect_license(t) == detect_license_from(t, 1)

\* the package.json block of _detect_run_command: the command in a one-element set, {} when it falls through
npm_command(t) ==
    IF package_json_dict(t) /\ package_json(t).scripts.shape = "dict"
    THEN (IF InSeq(<<"s","t","a","r","t">>, package_json(t).scripts.keys) THEN {<<"n","p","m"," ","s","t","a","r","t">>}
          ELSE IF InSeq(<<"d","e","v">>, package_json(t).scripts.keys) THEN {<<"n","p","m"," ","r","u","n"," ","d","e","v">>}
          ELSE {})
    ELSE {}

main_patterns == <<<<"m","a","i","n",".","p","y">>, <<"a","p","p",".","p","y">>, <<"r","u","n",".","p","y">>, <<"_","_","m","a","i","n","_","_",".","p","y">>, <<"m","a","n","a","g","e",".","p","y">>>>

\* _detect_run_command()
detect_run_command(t, order, project_name) ==
    LET mains == SelectSeq(main_patterns, LAMBDA n : Exists(t, <<n>>))
        marked == SelectSeq(glob_py(order), LAMBDA n : contains(read_text(t, <<n>>, 100), <<"i","f"," ","_","_","n","a","m","e","_","_">>))
    IN  IF npm_command(t) # {} THEN CHOOSE c \in npm_command(t) : TRUE
        ELSE IF mains # << >>
        THEN (IF mains[1] = <<"m","a","n","a","g","e",".","p","y">> THEN <<"p","y","t","h","o","n"," ","m","a","n","a","g","e",".","p","y"," ","r","u","n","s","e","r","v","e","r">> ELSE <<"p","y","t","h","o","n"," ">> \o mains[1])
        ELSE IF marked # << >> THEN <<"p","y","t","h","o","n"," ">> \o marked[1]
        ELSE IF Exists(t, <<<<"s","e","t","u","p",".","p","y">>>>) THEN <<"p","y","t","h","o","n"," ","s","e","t","u","p",".","p","y"," ","i","n","s","t","a","l","l"," ","&","&"," ">> \o lower(project_name)
        ELSE <<"p","y","t","h","o","n"," ","m","a","i","n",".","p","y"," "," ","#"," ","A","d","j","u","s","t"," ","a","s"," ","n","e","e","d","e","d">>

\* the notes the loop of _detect_usage_info appends for one main file
usage_notes(content) ==
    (IF contains(content, <<"a","r","g","p","a","r","s","e">>) \/ contains(content, <<"A","r","g","u","m","e","n","t","P","a","r","s","e","r">>)
     THEN <<<<"R","u","n"," ","w","i","t","h"," ","-","-","h","e","l","p"," ","t","o"," ","s","e","e"," ","a","l","l"," ","a","v","a","i","l","a","b","l","e"," ","o","p","t","i","o","n","s">>>> ELSE << >>)
    \o (IF contains(content, <<"c","l","i","c","k">>) THEN <<<<"U","s","e"," ","-","-","h","e","l","p"," ","f","l","a","g"," ","f","o","r"," ","c","o","m","m","a","n","d"," ","d","o","c","u","m","e","n","t","a","t","i","o","n">>>> ELSE << >>)
    \o (IF contains(lower(content), <<"c","o","n","f","i","g">>)
        THEN <<<<"C","o","n","f","i","g","u","r","e"," ","s","e","t","t","i","n","g","s"," ","i","n"," ","t","h","e"," ","c","o","n","f","i","g"," ","f","i","l","e"," ","b","e","f","o","r","e"," ","r","u","n","n","i","n","g">>>> ELSE << >>)

\* _detect_usage_info()
detect_usage_info(t, order) ==
    LET mains == find_main_files(t, order)
    IN  join(Concat([i \in 1..Len(mains) |-> usage_notes(read_text(t, <<mains[i]>>, DefaultMaxLines))]), <<" ","|"," ">>)

\* _detect_install_notes()
detect_install_notes(t) ==
    LET content == lower(read_text(t, <<<<"r","e","q","u","i","r","e","m","e","n","t","s",".","t","x","t">>>>, DefaultMaxLines))
        has_req == Exists(t, <<<<"r","e","q","u","i","r","e","m","e","n","t","s",".","t","x","t">>>>)
    IN  join(
          (IF has_req /\ contains(content, <<"o","p","e","n","c","v">>) THEN <<<<"O","p","e","n","C","V"," ","s","y","s","t","e","m"," ","l","i","b","r","a","r","i","e","s"," ","r","e","q","u","i","r","e","d">>>> ELSE << >>)
          \o (IF has_req /\ contains(content, <<"p","s","y","c","o","p","g","2">>) THEN <<<<"P","o","s","t","g","r","e","S","Q","L"," ","d","e","v","e","l","o","p","m","e","n","t"," ","h","e","a","d","e","r","s"," ","n","e","e","d","e","d">>>> ELSE << >>)
          \o (IF has_req /\ contains(content, <<"m","y","s","q","l","c","l","i","e","n","t">>) THEN <<<<"M","y","S","Q","L"," ","d","e","v","e","l","o","p","m","e","n","t"," ","l","i","b","r","a","r","i","e","s"," ","r","e","q","u","i","r","e","d">>>> ELSE << >>)
          \o (IF has_req /\ contains(content, <<"s","c","a","p","y">>)
              THEN <<<<"M","a","y"," ","r","e","q","u","i","r","e"," ","r","o","o","t","/","a","d","m","i","n"," ","p","r","i","v","i","l","e","g","e","s"," ","f","o","r"," ","n","e","t","w","o","r","k"," ","s","c","a","n","n","i","n","g">>>> ELSE << >>)
          \o (IF Exists(t, <<<<"D","o","c","k","e","r","f","i","l","e">>>>) THEN <<<<"D","o","c","k","e","r"," ","a","v","a","i","l","a","b","l","e"," ","f","o","r"," ","c","o","n","t","a","i","n","e","r","i","z","e","d"," ","d","e","p","l","o","y","m","e","n","t">>>> ELSE << >>)
          \o (IF Exists(t, <<<<".","e","n","v",".","e","x","a","m","p","l","e">>>>) \/ Exists(t, <<<<".","e","n","v">>>>)
              THEN <<<<"C","o","p","y"," ",".","e","n","v",".","e","x","a","m","p","l","e"," ","t","o"," ",".","e","n","v"," ","a","n","d"," ","c","o","n","f","i","g","u","r","e"," ","e","n","v","i","r","o","n","m","e","n","t"," ","v","a","r","i","a","b","l","e","s">>>> ELSE << >>),
          <<" ","|"," ">>)

git_config == <<<<".","g","i","t">>, <<"c","o","n","f","i","g">>>>

\* config.read(git_config) gave a parser: the file exists and configparser accepts it
git_ini(t) == FileAt(t, git_config).ini

git_ini_ok(t) == IsFile(t, git_config) /\ FileAt(t, git_config).mode = "ok" /\ git_ini(t).kind = "ok"

\* os.getenv('USER', os.getenv('USERNAME', 'Your Name'))
env_author(e) ==
    IF e.USER.shape = "str" THEN e.USER
    ELSE IF e.USERNAME.shape = "str" THEN e.USERNAME
    ELSE JStr(<<"Y","o","u","r"," ","N","a","m","e">>)

\* the package.json block of _detect_author_name: the value returned, in a one-element set
package_author(t) ==
    IF package_json_dict(t) /\ package_json(t).author.shape = "str" THEN {package_json(t).author}
    ELSE IF package_json_dict(t) /\ package_json(t).author.shape = "dict"
    THEN {IF package_json(t).author_name.shape = "absent" THEN JStr(<< >>) ELSE package_json(t).author_name}
    ELSE {}

\* _detect_author_name(): a JSON-like value, a str unless package.json gives something else
detect_author_name(t, e) ==
    LET setup == search_assignment(read_text(t, <<<<"s","e","t","u","p",".","p","y">>>>, DefaultMaxLines), <<"a","u","t","h","o","r">>, 1)
    IN  IF git_ini_ok(t) /\ git_ini(t).user_name.shape = "str" THEN git_ini(t).user_name
        ELSE IF Exists(t, <<<<"s","e","t","u","p",".","p","y">>>>) /\ setup.shape # "absent" THEN setup
        ELSE IF package_author(t) # {} THEN CHOOSE a \in package_author(t) : TRUE
        ELSE env_author(e)

\* the class [^/]
NotSlash(c) == c # "/"

\* re.search(r'github\.com[:/]([^/]+)/', t) from position start on: group(1), in a one-element set
RECURSIVE search_github_user(_, _)
search_github_user(t, start) ==
    LET i == FirstPos(t, start, LAMBDA j : MatchAt(t, j, <<"g","i","t","h","u","b",".","c","o","m">>)) IN
    IF i > Len(t) THEN {}
    ELSE LET a == i + 11
             b == SpanEnd(t, a, NotSlash)
         IN  IF /\ MatchAt(t, i, <<"g","i","t","h","u","b",".","c","o","m">>)
                /\ i + 10 <= Len(t) /\ t[i + 10] \in {":", "/"}
                /\ b > a /\ b <= Len(t)
             THEN {SubSeq(t, a, b - 1)}
             ELSE search_github_user(t, i + 1)

\* re.search(r'url\s*=\s*' + prefix + r'([^/]+)', t) from position start on
RECURSIVE search_url(_, _, _)
search_url(t, prefix, start) ==
    LET i == FirstPos(t, start, LAMBDA j : MatchAt(t, j, <<"u","r","l">>)) IN
    IF i > Len(t) THEN {}
    ELSE LET a == SpanEnd(t, i + 3, IsSpace)
             b == IF a > Len(t) THEN a ELSE SpanEnd(t, a + 1, IsSpace)
             c == b + Len(prefix)
             d == SpanEnd(t, c, NotSlash)
         IN  IF MatchAt(t, i, <<"u","r","l">>) /\ a <= Len(t) /\ t[a] = "=" /\ MatchAt(t, b, prefix) /\ d > c
             THEN {SubSeq(t, c, d - 1)}
             ELSE search_url(t, prefix, i + 1)

\* _detect_github_username()
detect_github_username(t) ==
    LET content == read_text(t, git_config, DefaultMaxLines)
        p1 == search_github_user(content, 1)
        p2 == search_url(content, <<"h","t","t","p","s",":","/","/","g","i","t","h","u","b",".","c","o","m","/">>, 1)
        p3 == search_url(content, <<"g","i","t","@","g","i","t","h","u","b",".","c","o","m",":">>, 1)
        hit == IF p1 # {} THEN p1 ELSE IF p2 # {} THEN p2 ELSE p3
    IN  IF Exists(t, git_config) /\ hit # {} THEN CHOOSE u \in hit : TRUE ELSE <<"y","o","u","r","u","s","e","r","n","a","m","e">>

\* the package.json block of _detect_email: the value returned, in a one-element set
package_email(t) ==
    IF package_json_dict(t) /\ package_json(t).author.shape = "dict"
    THEN {IF package_json(t).author_email.shape = "absent" THEN JStr(<< >>) ELSE package_json(t).author_email}
    ELSE {}

\* _detect_email(): a JSON-like value
detect_email(t) ==
    LET setup == search_assignment(read_text(t, <<<<"s","e","t","u","p",".","p","y">>>>, DefaultMaxLines), <<"a","u","t","h","o","r","_","e","m","a","i","l">>, 1)
    IN  IF git_ini_ok(t) /\ git_ini(t).user_email.shape = "str" THEN git_ini(t).user_email
        ELSE IF Exists(t, <<<<"s","e","t","u","p",".","p","y">>>>) /\ setup.shape # "absent" THEN setup
        ELSE IF package_email(t) # {} THEN CHOOSE a \in package_email(t) : TRUE
        ELSE JStr(<< >>)

\* the class [^/\s]
IsRepoChar(c) == c # "/" /\ ~IsSpace(c)

\* (?:\s|$) at position q
EndOrSpace(t, q) == q = Len(t) + 1 \/ (q <= Len(t) /\ IsSpace(t[q]))

\* re.search(r'github\.com[:/][^/]+/([^/\s]+?)(?:\.git)?(?:\s|$)', t) from position start on
RECURSIVE search_repo(_, _)
search_repo(t, start) ==
    LET i == FirstPos(t, start, LAMBDA j : MatchAt(t, j, <<"g","i","t","h","u","b",".","c","o","m">>)) IN
    IF i > Len(t) THEN {}
    ELSE LET a == i + 11
             b == SpanEnd(t, a, NotSlash)
             p == b + 1
             e == SpanEnd(t, p, IsRepoChar)
             fits(k) == (MatchAt(t, p + k, <<".","g","i","t">>) /\ EndOrSpace(t, p + k + 4)) \/ EndOrSpace(t, p + k)
         IN  IF /\ MatchAt(t, i, <<"g","i","t","h","u","b",".","c","o","m">>)
                /\ i + 10 <= Len(t) /\ t[i + 10] \in {":", "/"}
                /\ b > a /\ b <= Len(t)
                /\ \E k \in 1..(e - p) : fits(k)
             THEN {SubSeq(t, p, p + (CHOOSE k \in 1..(e - p) : fits(k) /\ \A j \in 1..(k - 1) : ~fits(j)) - 1)}
             ELSE search_repo(t, i + 1)

\* _detect_repo_name()
detect_repo_name(t, project_name) ==
    LET hit == search_repo(read_text(t, git_config, DefaultMaxLines), 1)
    IN  IF Exists(t, git_config) /\ hit # {} THEN CHOOSE r \in hit : TRUE ELSE project_name

screenshot_dirs == <<<<<<"s","c","r","e","e","n","s","h","o","t","s">>>>, <<<<"i","m","a","g","e","s">>>>, <<<<"d","o","c","s">>, <<"i","m","a","g","e","s">>>>, <<<<"a","s","s","e","t","s">>, <<"i","m","a","g","e","s">>>>>>

\* list(dir_path.glob('*.png')) + list(dir_path.glob('*.jpg')) is not empty
has_images(t, d) ==
    \E p \in RglobAll(t) : Len(p) = Len(d) + 1 /\ SubSeq(p, 1, Len(d)) = d
                           /\ (endswith(Name(p), <<".","p","n","g">>) \/ endswith(Name(p), <<".","j","p","g">>))

\* _detect_screenshots()
detect_screenshots(t) == \E i \in 1..Len(screenshot_dirs) : IsDir(t, screenshot_dirs[i]) /\ has_images(t, screenshot_dirs[i])

\* frameworks, in the order of the dict
frameworks == <<
    <<<<"f","l","a","s","k">>, <<"F","l","a","s","k"," ","f","r","a","m","e","w","o","r","k">>>>, <<<<"d","j","a","n","g","o">>, <<"D","j","a","n","g","o"," ","f","r","a","m","e","w","o","r","k">>>>, <<<<"f","a","s","t","a","p","i">>, <<"F","a","s","t","A","P","I"," ","f","r","a","m","e","w","o","r","k">>>>,
    <<<<"n","u","m","p","y">>, <<"N","u","m","P","y"," ","l","i","b","r","a","r","y">>>>, <<<<"p","a","n","d","a","s">>, <<"P","a","n","d","a","s"," ","l","i","b","r","a","r","y">>>>, <<<<"t","e","n","s","o","r","f","l","o","w">>, <<"T","e","n","s","o","r","F","l","o","w">>>>,
    <<<<"p","y","t","o","r","c","h">>, <<"P","y","T","o","r","c","h">>>>, <<<<"s","c","i","k","i","t","-","l","e","a","r","n">>, <<"S","c","i","k","i","t","-","l","e","a","r","n">>>>>>

\* the separator ' \u2022 ' of the acknowledgments, its bullet written "*"
BulletSep == <<" ", "*", " ">>

\* _detect_acknowledgments(); a dependencies value that is no dict has none of the three keys
detect_acknowledgments(t) ==
    LET content == lower(read_text(t, <<<<"r","e","q","u","i","r","e","m","e","n","t","s",".","t","x","t">>>>, DefaultMaxLines))
        hits == SelectSeq(frameworks, LAMBDA e : Exists(t, <<<<"r","e","q","u","i","r","e","m","e","n","t","s",".","t","x","t">>>>) /\ contains(content, e[1]))
        deps == IF package_json_dict(t) /\ package_json(t).dependencies.shape = "dict"
                THEN package_json(t).dependencies.keys ELSE << >>
    IN  join([i \in 1..Len(hits) |-> <<"B","u","i","l","t"," ","w","i","t","h"," ">> \o hits[i][2]]
             \o (IF InSeq(<<"r","e","a","c","t">>, deps) THEN <<<<"B","u","i","l","t"," ","w","i","t","h"," ","R","e","a","c","t">>>> ELSE << >>)
             \o (IF InSeq(<<"v","u","e">>, deps) THEN <<<<"B","u","i","l","t"," ","w","i","t","h"," ","V","u","e",".","j","s">>>> ELSE << >>)
             \o (IF InSeq(<<"e","x","p","r","e","s","s">>, deps) THEN <<<<"P","o","w","e","r","e","d"," ","b","y"," ","E","x","p","r","e","s","s",".","j","s">>>> ELSE << >>),
             BulletSep)

\* analyze_project(): the info dictionary
analyze_project(t, order, e, project_name) == [
    description |-> generate_description(t, order, project_name),
    features |-> extract_features(t, order),
    run_command |-> detect_run_command(t, order, project_name),
    additional_usage |-> detect_usage_info(t, order),
    install_notes |-> detect_install_notes(t),
    author_name |-> detect_author_name(t, e),
    github_username |-> detect_github_username(t),
    email |-> detect_email(t),
    repo_name |-> detect_repo_name(t, project_name),
    license |-> detect_license(t),
    has_screenshots |-> detect_screenshots(t),
    screenshot_note |-> << >>,
    acknowledgments |-> detect_acknowledgments(t)]

\* the orders in which the file system may list the entries of the root
ListingOrders(t) ==
    LET names == {p[1] : p \in IterDir(t)}
    IN  {o \in [1..Cardinality(names) -> names] : \A i, j \in 1..Cardinality(names) : o[i] = o[j] => i = j}

\* an analyze_project that removes the files it has read
AnalyzeProjectConsuming ==
    /\ pc = "infer"
    /\ \E order \in ListingOrders(tree) :
        info' = analyze_project(tree, order, env, Name(rootParts))
    /\ tree' = {}
    /\ pc' = IF entry = "analysis" THEN "scan" ELSE "save"
    /\ UNCHANGED <<rootParts, env, todo, analysis, entry, rootKind, out, sidecar, user_data, answers, lastRead, project_type, installed, log, now>>

\* AutoReadmeInfoGenerator(project_path).analyze_project()
AnalyzeProject ==
    /\ pc = "infer"
    /\ \E order \in ListingOrders(tree) :
        info' = analyze_project(tree, order, env, Name(rootParts))
    /\ pc' = IF entry = "analysis" THEN "scan" ELSE "save"
    /\ UNCHANGED <<rootParts, tree, env, todo, analysis, entry, rootKind, out, sidecar, user_data, answers, lastRead, project_type, installed, log, now>>


\* the largest max_lines _read_file_safe is called with on its own
MaxLinesArg == 3

\* self._read_file_safe(self.project_path / path, max_lines), for a file of the
\* tree or for a path nothing is at
ReadFileSafe ==
    /\ pc = "read"
    /\ \E path \in {f.path : f \in tree} \cup {<<<<"m","i","s","s","i","n","g",".","t","x","t">>>>}, max_lines \in 0..MaxLinesArg :
        lastRead' = [path |-> path, max_lines |-> max_lines, text |-> read_text(tree, path, max_lines)]
    /\ UNCHANGED <<rootParts, tree, env, pc, todo, analysis, info, entry, rootKind, out, sidecar, user_data, answers, project_type, installed, log, now>>

---------------------------------------------------------------------------
(* The entry points: create_readme, auto_readme_info.main, run_workflow    *)

\* load_auto_generated_info when readme_info.json does not exist
NoSidecar == [kind |-> "absent", value |-> << >>]

\* the number of lines json.dump(info, f, indent=2) writes: the braces, a line for
\* each of the 12 scalar fields, and the list of features
dumped_lines(i) == 2 + 12 + (IF i.features = << >> THEN 1 ELSE Len(i.features) + 2)

\* readme_info.json as save_to_file writes it; what it holds is kept in sidecar
sidecar_file(i) == [path |-> <<<<"r","e","a","d","m","e","_","i","n","f","o",".","j","s","o","n">>>>, n |-> dumped_lines(i), at |-> << >>, mode |-> "ok",
                    json |-> NoJson, ini |-> NoIni, py |-> NoPy]

\* auto_readme_info.py and readme_generator.py both stand next to readme_workflow.py
BothScripts == [auto |-> TRUE, readme |-> TRUE]

\* create_readme up to the call of analyze_project_structure: the path is resolved
\* and has to exist and to be a directory
CreateReadmeStart ==
    /\ pc = "start"
    /\ entry = "create_readme"
    /\ IF rootKind = "dir"
       THEN pc' = "scan" /\ out' = out
       ELSE pc' = "returned" /\ out' = "error"
    /\ UNCHANGED <<rootParts, tree, env, todo, analysis, info, entry, rootKind, sidecar, user_data, answers, lastRead, project_type, installed, log, now>>

\* main up to the call of analyze_project: a path that is not empty is handed to
\* AutoReadmeInfoGenerator as it is
MainStart ==
    /\ pc = "start"
    /\ entry = "main"
    /\ pc' = "infer"
    /\ UNCHANGED <<rootParts, tree, env, todo, analysis, info, entry, rootKind, out, sidecar, user_data, answers, lastRead, project_type, installed, log, now>>

\* run_workflow that gives up when auto_readme_info.py is missing or cannot be started
WorkflowStartGivingUp ==
    /\ pc = "start"
    /\ entry = "run_workflow"
    /\ \E starts \in BOOLEAN :
        IF rootKind \in {"empty", "missing"}
        THEN pc' = "returned" /\ out' = "error" /\ log' = log
        ELSE IF installed.auto /\ starts
        THEN pc' = "infer" /\ out' = out /\ log' = log \o <<"step 1", "analysis started">>
        ELSE pc' = "returned" /\ out' = "error" /\ log' = log \o <<"step 1", "analysis not run">>
    /\ UNCHANGED <<rootParts, tree, env, todo, analysis, info, entry, rootKind, sidecar, user_data, answers, lastRead, project_type, installed, now>>

\* run_workflow up to its subprocess call of auto_readme_info.py: the path has to
\* be given and to exist, and is then the first line of the input of main; the
\* script may be missing, and subprocess.run may raise instead of starting it
WorkflowStart ==
    /\ pc = "start"
    /\ entry = "run_workflow"
    /\ \E starts \in BOOLEAN :
        IF rootKind \in {"empty", "missing"}
        THEN pc' = "returned" /\ out' = "error" /\ log' = log
        ELSE IF installed.auto /\ starts
        THEN pc' = "infer" /\ out' = out /\ log' = log \o <<"step 1", "analysis started">>
        ELSE pc' = "render" /\ out' = out /\ log' = log \o <<"step 1", "analysis not run">>
    /\ UNCHANGED <<rootParts, tree, env, todo, analysis, info, entry, rootKind, sidecar, user_data, answers, lastRead, project_type, installed, now>>

\* main after analyze_project: display_summary, the question, and save_to_file
\* unless the answer is n (run_workflow answers y); open(output_path, 'w') raises
\* when the project path is no directory, and main does not catch it. Under
\* run_workflow this is the end of the subprocess, whatever its exit status.
SaveToFile ==
    /\ pc = "save"
    /\ \E answer \in IF entry = "run_workflow" THEN {"y"} ELSE {"y", "n", ""} :
        IF answer = "n"
        THEN out' = "ok" /\ UNCHANGED <<tree, sidecar>>
        ELSE IF rootKind = "dir"
        THEN /\ out' = "ok"
             /\ tree' = {f \in tree : f.path # <<<<"r","e","a","d","m","e","_","i","n","f","o",".","j","s","o","n">>>>} \cup {sidecar_file(info)}
             /\ sidecar' = [kind |-> "dict", value |-> info]
        ELSE out' = "raised" /\ UNCHANGED <<tree, sidecar>>
    /\ IF entry = "run_workflow"
       THEN pc' = "render" /\ log' = Append(log, "analysis returned")
       ELSE pc' = "returned" /\ log' = log
    /\ UNCHANGED <<rootParts, env, todo, analysis, info, entry, rootKind, user_data, answers, lastRead, project_type, installed, now>>

\* run_workflow from STEP 2 on: readme_generator.py is run when it stands next to
\* readme_workflow.py and subprocess.run can start it, and the completion banner is
\* printed in every case. The generator script is not one of the three sources:
\* only its start and its return are recorded.
WorkflowRender ==
    /\ pc = "render"
    /\ entry = "run_workflow"
    /\ \E starts \in BOOLEAN :
        log' = log \o <<"step 2">>
                   \o (IF ~installed.readme THEN <<"generator not found">>
                       ELSE IF starts THEN <<"render started", "render returned">>
                       ELSE <<"render not started">>)
                   \o <<"workflow complete">>
    /\ pc' = "returned"
    /\ out' = "ok"
    /\ UNCHANGED <<rootParts, tree, env, todo, analysis, info, entry, rootKind, sidecar, user_data, answers, lastRead, project_type, installed, now>>

---------------------------------------------------------------------------
(* enhanced_readme_generator.py: detect_project_type                       *)

\* any(word in str(dep).lower() for deps in analysis.get('dependencies', {}).values() for dep in deps)
any_dep(a, word) ==
    \E tech \in DOMAIN a.dependencies : \E i \in 1..Len(a.dependencies[tech]) :
        contains(lower(a.dependencies[tech][i]), word)

\* a detect_project_type that looks at the Python manifests before package.json
detect_project_type_python_first(a) ==
    LET files == Range(a.main_files) \cup Range(a.config_files)
    IN  IF files \cap {<<"r","e","q","u","i","r","e","m","e","n","t","s",".","t","x","t">>, <<"s","e","t","u","p",".","p","y">>, <<"p","y","p","r","o","j","e","c","t",".","t","o","m","l">>} # {}
        THEN (IF any_dep(a, <<"d","j","a","n","g","o">>) THEN <<"D","j","a","n","g","o"," ","A","p","p","l","i","c","a","t","i","o","n">>
              ELSE IF any_dep(a, <<"f","l","a","s","k">>) THEN <<"F","l","a","s","k"," ","A","p","p","l","i","c","a","t","i","o","n">>
              ELSE IF any_dep(a, <<"f","a","s","t","a","p","i">>) THEN <<"F","a","s","t","A","P","I"," ","A","p","p","l","i","c","a","t","i","o","n">>
              ELSE <<"P","y","t","h","o","n"," ","P","r","o","j","e","c","t">>)
        ELSE IF <<"p","a","c","k","a","g","e",".","j","s","o","n">> \in files
        THEN (IF any_dep(a, <<"r","e","a","c","t">>) THEN <<"R","e","a","c","t"," ","A","p","p","l","i","c","a","t","i","o","n">>
              ELSE IF any_dep(a, <<"v","u","e">>) THEN <<"V","u","e",".","j","s"," ","A","p","p","l","i","c","a","t","i","o","n">>
              ELSE IF any_dep(a, <<"e","x","p","r","e","s","s">>) THEN <<"N","o","d","e",".","j","s","/","E","x","p","r","e","s","s"," ","B","a","c","k","e","n","d">>
              ELSE IF any_dep(a, <<"n","e","x","t">>) THEN <<"N","e","x","t",".","j","s"," ","A","p","p","l","i","c","a","t","i","o","n">>
              ELSE <<"N","o","d","e",".","j","s"," ","A","p","p","l","i","c","a","t","i","o","n">>)
        ELSE IF <<"C","a","r","g","o",".","t","o","m","l">> \in files THEN <<"R","u","s","t"," ","P","r","o","j","e","c","t">>
        ELSE IF <<"g","o",".","m","o","d">> \in files THEN <<"G","o"," ","P","r","o","j","e","c","t">>
        ELSE IF files \cap {<<"p","o","m",".","x","m","l">>, <<"b","u","i","l","d",".","g","r","a","d","l","e">>} # {} THEN <<"J","a","v","a"," ","P","r","o","j","e","c","t">>
        ELSE <<"S","o","f","t","w","a","r","e"," ","P","r","o","j","e","c","t">>

\* detect_project_type(analysis)
detect_project_type(a) ==
    LET files == Range(a.main_files) \cup Range(a.config_files)
    IN  IF <<"p","a","c","k","a","g","e",".","j","s","o","n">> \in files
        THEN (IF any_dep(a, <<"r","e","a","c","t">>) THEN <<"R","e","a","c","t"," ","A","p","p","l","i","c","a","t","i","o","n">>
              ELSE IF any_dep(a, <<"v","u","e">>) THEN <<"V","u","e",".","j","s"," ","A","p","p","l","i","c","a","t","i","o","n">>
              ELSE IF any_dep(a, <<"e","x","p","r","e","s","s">>) THEN <<"N","o","d","e",".","j","s","/","E","x","p","r","e","s","s"," ","B","a","c","k","e","n","d">>
              ELSE IF any_dep(a, <<"n","e","x","t">>) THEN <<"N","e","x","t",".","j","s"," ","A","p","p","l","i","c","a","t","i","o","n">>
              ELSE <<"N","o","d","e",".","j","s"," ","A","p","p","l","i","c","a","t","i","o","n">>)
        ELSE IF files \cap {<<"r","e","q","u","i","r","e","m","e","n","t","s",".","t","x","t">>, <<"s","e","t","u","p",".","p","y">>, <<"p","y","p","r","o","j","e","c","t",".","t","o","m","l">>} # {}
        THEN (IF any_dep(a, <<"d","j","a","n","g","o">>) THEN <<"D","j","a","n","g","o"," ","A","p","p","l","i","c","a","t","i","o","n">>
              ELSE IF any_dep(a, <<"f","l","a","s","k">>) THEN <<"F","l","a","s","k"," ","A","p","p","l","i","c","a","t","i","o","n">>
              ELSE IF any_dep(a, <<"f","a","s","t","a","p","i">>) THEN <<"F","a","s","t","A","P","I"," ","A","p","p","l","i","c","a","t","i","o","n">>
              ELSE <<"P","y","t","h","o","n"," ","P","r","o","j","e","c","t">>)
        ELSE IF <<"C","a","r","g","o",".","t","o","m","l">> \in files THEN <<"R","u","s","t"," ","P","r","o","j","e","c","t">>
        ELSE IF <<"g","o",".","m","o","d">> \in files THEN <<"G","o"," ","P","r","o","j","e","c","t">>
        ELSE IF files \cap {<<"p","o","m",".","x","m","l">>, <<"b","u","i","l","d",".","g","r","a","d","l","e">>} # {} THEN <<"J","a","v","a"," ","P","r","o","j","e","c","t">>
        ELSE <<"S","o","f","t","w","a","r","e"," ","P","r","o","j","e","c","t">>

\* detect_project_type(analysis), as generate_readme_content and the summary of create_readme call it
DetectProjectType ==
    /\ pc = "type"
    /\ project_type' = detect_project_type(analysis)
    /\ pc' = "typed"
    /\ UNCHANGED <<rootParts, tree, env, todo, analysis, info, entry, rootKind, out, sidecar, user_data, answers, lastRead, installed, log, now>>

---------------------------------------------------------------------------
(* enhanced_readme_generator.py: load_auto_generated_info, get_user_input  *)

\* `if auto_info:` for what load_auto_generated_info returns: None when the file is
\* absent or json.load raises, else the parsed value, an empty one being false
auto_info_found(sc) == sc.kind \in {"dict", "list"} /\ sc.value # << >>

\* bool(v) for a JSON value; JOther stands for a non-empty list or a number other than 0
JTruthy(v) ==
    \/ v.shape = "str" /\ v.s # << >>
    \/ v.shape = "dict" /\ v.keys # << >>
    \/ v.shape = "other"

license_map == {<<<<"1">>, <<"M","I","T">>>>, <<<<"2">>, <<"A","p","a","c","h","e","-","2",".","0">>>>, <<<<"3">>, <<"G","P","L","-","3",".","0">>>>,
                <<<<"4">>, <<"B","S","D","-","3","-","C","l","a","u","s","e">>>>, <<<<"5">>, <<"S","e","e"," ","L","I","C","E","N","S","E"," ","f","i","l","e">>>>}

\* the prompts of get_user_input after the choice; the loop of the features is
\* answered by one line, or by none, before the empty line that ends it
Prompts == {"description", "use_auto", "feature", "run_command", "additional_usage", "install_notes",
            "author_name", "github_username", "email", "repo_name", "keep_license", "license_choice",
            "has_screenshots", "screenshot_note", "acknowledgments"}

\* the body of get_user_input from `user_data = {}` on, with defaults the dict
\* the values of which are offered, and ans the line typed at each prompt
prompted(defaults, ans) ==
    LET Get(k, d) == IF k \in DOMAIN defaults THEN defaults[k] ELSE d
        typed(p) == strip(ans[p])
        get_with_default(p, default) ==
            IF default # << >> THEN (IF typed(p) # << >> THEN typed(p) ELSE default) ELSE typed(p)
        get_with_default_json(p, default) ==
            IF JTruthy(default) THEN (IF typed(p) # << >> THEN JStr(typed(p)) ELSE default) ELSE JStr(typed(p))
        entered == IF typed("feature") = << >> THEN << >> ELSE <<typed("feature")>>
        chosen == IF HasKey(license_map, typed("license_choice"))
                  THEN Lookup(license_map, typed("license_choice")) ELSE <<"M","I","T">>
        shots == Get("has_screenshots", FALSE)
        user_data0 == [
            description |-> get_with_default_json("description", Get("description", JStr(<< >>))),
            features |-> IF Get("features", << >>) # << >> /\ lower(typed("use_auto")) # <<"n">>
                         THEN defaults.features ELSE entered,
            run_command |-> get_with_default("run_command", Get("run_command", << >>)),
            additional_usage |-> get_with_default("additional_usage", Get("additional_usage", << >>)),
            install_notes |-> get_with_default("install_notes", Get("install_notes", << >>)),
            author_name |-> get_with_default_json("author_name", Get("author_name", JStr(<<"Y","o","u","r"," ","N","a","m","e">>))),
            github_username |-> get_with_default("github_username", Get("github_username", <<"y","o","u","r","u","s","e","r","n","a","m","e">>)),
            email |-> get_with_default_json("email", Get("email", JStr(<< >>))),
            repo_name |-> get_with_default("repo_name", Get("repo_name", << >>)),
            license |-> IF Get("license", << >>) # << >> /\ lower(typed("keep_license")) # <<"n">>
                        THEN defaults.license ELSE chosen,
            has_screenshots |-> IF shots THEN TRUE ELSE lower(typed("has_screenshots")) = <<"y">>,
            acknowledgments |-> get_with_default("acknowledgments", Get("acknowledgments", << >>))]
    IN  IF shots
        THEN ("screenshot_note" :> (IF typed("screenshot_note") # << >> THEN typed("screenshot_note")
                                     ELSE <<"s","c","r","e","e","n","s","h","o","t","s","/","d","e","m","o",".","p","n","g">>)) @@ user_data0
        ELSE IF user_data0.has_screenshots
        THEN ("screenshot_note" :> typed("screenshot_note")) @@ user_data0
        ELSE user_data0

\* get_user_input(project_path) with the sidecar sc: raised tells that .get was
\* called on a value that is no dict (AttributeError), value is what is returned
get_user_input(sc, ans) ==
    LET choice == IF strip(ans["choice"]) = << >> THEN <<"1">> ELSE strip(ans["choice"])
    IN  IF auto_info_found(sc) /\ choice = <<"1">> THEN [raised |-> FALSE, value |-> sc.value]
        ELSE IF auto_info_found(sc) /\ choice = <<"3">>
        THEN (IF sc.kind = "dict" THEN [raised |-> FALSE, value |-> prompted(sc.value, ans)]
              ELSE [raised |-> TRUE, value |-> << >>])
        ELSE [raised |-> FALSE, value |-> prompted(<< >>, ans)]

\* what is typed at the choice of the merge policy
Choices == {<< >>, <<"1">>, <<"2">>, <<"3">>, <<" ","3"," ">>, <<"9">>}

\* the line typed at a prompt that is not left blank
TypedLine(p) ==
    CASE p = "use_auto" -> <<"N">>
      [] p = "keep_license" -> <<"n">>
      [] p = "license_choice" -> <<"2">>
      [] p = "has_screenshots" -> <<"Y">>
      [] p = "feature" -> <<"T","y","p","e","d"," ","f","e","a","t","u","r","e">>
      [] OTHER -> <<" ","t","y","p","e","d"," ">>

\* the largest number of prompts that are not left blank
MaxTyped == 2

\* the lines typed at the prompts: at most MaxTyped of them are not blank
Answers ==
    {[p \in Prompts \cup {"choice"} |-> IF p = "choice" THEN c ELSE IF p \in T THEN TypedLine(p) ELSE << >>] :
        c \in Choices, T \in {S \in SUBSET Prompts : Cardinality(S) <= MaxTyped}}

\* user_info = get_user_input(project_path), in create_readme
GetUserInput ==
    /\ pc = "input"
    /\ \E ans \in Answers :
        /\ answers' = ans
        /\ user_data' = get_user_input(sidecar, ans).value
        /\ out' = IF get_user_input(sidecar, ans).raised THEN "raised" ELSE out
    /\ pc' = IF get_user_input(sidecar, answers').raised THEN "returned" ELSE "generate"
    /\ UNCHANGED <<rootParts, tree, env, todo, analysis, info, entry, rootKind, sidecar, lastRead, project_type, installed, log, now>>

---------------------------------------------------------------------------
(* Project trees                                                           *)

\* a readable text file of n lines, the lines that are not empty listed in at
TextFile(path, n, at) == [path |-> path, n |-> n, at |-> at, mode |-> "ok", json |-> NoJson, ini |-> NoIni, py |-> NoPy]

\* a file of n lines that begins with the lines ls, the rest of its lines empty
Long(path, n, ls) == TextFile(path, n, [i \in 1..Len(ls) |-> [no |-> i, s |-> ls[i]]])

\* a file of one line per element of ls
Short(path, ls) == Long(path, Len(ls), ls)

\* a file open() raises on
Unreadable(path) == [TextFile(path, 1, << >>) EXCEPT !.mode = "unreadable"]

\* a package.json that json.load turns into the dict with these values
PackageJson(n, description, author, author_name, scripts, dependencies) ==
    [TextFile(<<<<"p","a","c","k","a","g","e",".","j","s","o","n">>>>, n, << >>) EXCEPT
        !.json = [NoJson EXCEPT !.kind = "dict", !.description = description, !.author = author,
                                !.author_name = author_name, !.scripts = scripts, !.dependencies = dependencies]]

\* the resolved roots the operations are run on
Roots == {<<<<"/">>, <<"h","o","m","e">>, <<"p","r","o","j">>>>, <<<<"/">>, <<"s","r","v">>, <<"b","u","i","l","d">>, <<"p","r","o","j">>>>}

\* the files the trees of the scan are drawn from
ScanCatalogue == {
    Short(<<<<"m","a","i","n",".","p","y">>>>, <<<<"i","m","p","o","r","t"," ","o","s">>, <<"p","r","i","n","t","(","1",")">>>>),
    Short(<<<<"d","i","s","t">>, <<"a",".","j","s">>>>, <<<<"x">>>>),
    Short(<<<<"s","r","c">>, <<"b","u","i","l","d">>, <<"b",".","p","y">>>>, <<<<"x">>>>),
    Short(<<<<"s","r","c">>, <<"u","t","i","l",".","p","y">>>>, <<<<"x">>>>),
    Short(<<<<"n","o","d","e","_","m","o","d","u","l","e","s">>, <<"m",".","j","s">>>>, <<<<"x">>>>),
    Short(<<<<"s","c","a","n","_","2","0","2","4","0","1","0","1","_","1","2","0","0","0","0",".","c","s","v">>>>, <<<<"1",",","2">>>>),
    Short(<<<<"s","c","a","n","_","2","0","2","4","0","1","0","1","_","1","2","0","0","0","0",".","l","o","g">>>>, <<<<"1">>>>),
    Short(<<<<"r","e","q","u","i","r","e","m","e","n","t","s",".","t","x","t">>>>, <<<<"f","l","a","s","k","=","=","2",".","0",".","1">>, <<"n","u","m","p","y",">","=","1",".","2","0">>>>),
    Short(<<<<"p","y","p","r","o","j","e","c","t",".","t","o","m","l">>>>, <<<<"[","p","r","o","j","e","c","t","]">>, <<"n","a","m","e"," ","="," ","\"","d","e","m","o","\"">>>>),
    Unreadable(<<<<"d","a","t","a",".","b","i","n">>>>)}

\* the files the trees of the inference are drawn from
InferCatalogue == {
    Short(<<<<"f","o","o","_","t","e","s","t",".","p","y">>>>, <<<<"d","e","f"," ","r","u","n","_","s","e","r","v","e","r","(",")",":">>, <<" "," "," "," ","p","a","s","s">>>>),
    Long(<<<<"f","o","o","_","t","e","s","t",".","p","y">>>>, 500, <<<<"d","e","f"," ","r","u","n","_","s","e","r","v","e","r","(",")",":">>, <<" "," "," "," ","p","a","s","s">>>>),
    Long(<<<<"m","a","i","n",".","p","y">>>>, 500, <<<<"d","e","f"," ","l","o","a","d","_","d","a","t","a","(","p","a","t","h",")",":">>, <<"d","e","f"," ","l","o","a","d","_","d","a","t","a","(","p","a","t","h",","," ","s","e","p",")",":">>, <<"d","e","f"," ","_","h","e","l","p","e","r","(",")",":">>,
                                <<"d","e","f"," ","r","u","n","(",")",":">>, <<"c","l","a","s","s"," ","D","a","t","a","L","o","a","d","e","r",":">>, <<"d","e","f"," ","s","a","v","e","_","r","e","p","o","r","t","(","x",")",":">>, <<"d","e","f"," ","p","a","r","s","e","_","a","r","g","s","(",")",":">>,
                                <<"d","e","f"," ","f","e","t","c","h","_","p","a","g","e","(","u",")",":">>, <<"d","e","f"," ","c","l","e","a","n","_","r","o","w","s","(","r",")",":">>, <<"d","e","f"," ","p","l","o","t","(","x",")",":">>>>),
    Long(<<<<"a","p","p",".","p","y">>>>, 500, <<<<"d","e","f"," ","l","o","a","d","_","d","a","t","a","(","p",")",":">>, <<"c","l","a","s","s"," ","D","a","t","a","L","o","a","d","e","r","(","o","b","j","e","c","t",")",":">>, <<"c","l","a","s","s"," ","H","t","t","p","2","S","e","r","v","e","r",":">>,
                               <<"i","m","p","o","r","t"," ","c","s","v",","," ","j","s","o","n",","," ","l","o","g","g","i","n","g">>>>),
    Short(<<<<"t","o","o","l",".","p","y">>>>, <<<<"i","f"," ","_","_","n","a","m","e","_","_"," ","=","="," ","'","_","_","m","a","i","n","_","_","'",":">>, <<" "," "," "," ","r","u","n","(",")">>>>),
    Long(<<<<"t","o","o","l",".","p","y">>>>, 100, <<<<"i","f"," ","_","_","n","a","m","e","_","_"," ","=","="," ","'","_","_","m","a","i","n","_","_","'",":">>, <<" "," "," "," ","r","u","n","(",")">>>>),
    Short(<<<<"L","I","C","E","N","S","E">>>>, <<<<"G","N","U"," ","G","e","n","e","r","a","l"," ","P","u","b","l","i","c"," ","L","i","c","e","n","s","e">>, <<"V","e","r","s","i","o","n"," ","3",","," ","2","9"," ","J","u","n","e"," ","2","0","0","7">>>>),
    Long(<<<<"L","I","C","E","N","S","E">>>>, 20, <<<<"G","N","U"," ","G","E","N","E","R","A","L"," ","P","U","B","L","I","C"," ","L","I","C","E","N","S","E">>, <<"V","e","r","s","i","o","n"," ","3",","," ","2","9"," ","J","u","n","e"," ","2","0","0","7">>>>),
    Long(<<<<"L","I","C","E","N","S","E">>>>, 21, <<<<"M","I","T"," ","L","i","c","e","n","s","e">>, <<"C","o","p","y","r","i","g","h","t"," ","(","c",")"," ","2","0","2","4">>>>),
    Long(<<<<"L","I","C","E","N","S","E">>>>, 20, <<<<"G","N","U"," ","G","e","n","e","r","a","l"," ","P","u","b","l","i","c"," ","L","i","c","e","n","s","e">>, <<"a","s"," ","u","s","e","d"," ","b","y"," ","t","h","e"," ","B","S","D"," ","p","r","o","j","e","c","t","s">>>>),
    Long(<<<<"L","I","C","E","N","S","E",".","t","x","t">>>>, 30, <<<<"A","p","a","c","h","e"," ","L","i","c","e","n","s","e">>, <<"V","e","r","s","i","o","n"," ","2",".","0",","," ","J","a","n","u","a","r","y"," ","2","0","0","4">>>>),
    Short(<<<<"R","E","A","D","M","E",".","m","d">>>>, <<<<"#"," ","D","e","m","o">>, <<"A"," ","s","h","o","r","t"," ","t","o","o","l",".">>>>),
    Long(<<<<"R","E","A","D","M","E",".","m","d">>>>, 20, <<<<"#"," ","D","e","m","o">>, <<"A"," ","l","o","n","g"," ","t","o","o","l",".">>>>),
    PackageJson(3, JStr(<< >>), JDict(<< >>), JAbsent, JAbsent, JAbsent),
    PackageJson(5, JStr(<<"A"," ","p","a","c","k","a","g","e">>), JStr(<<"A","n","n">>), JAbsent, JDict(<<<<"d","e","v">>>>), JDict(<<<<"e","x","p","r","e","s","s">>>>)),
    Long(<<<<"s","e","t","u","p",".","p","y">>>>, 500, <<<<"s","e","t","u","p","(","n","a","m","e","=","'","d","e","m","o","'",",">>, <<"d","e","s","c","r","i","p","t","i","o","n"," ","="," ","'","A"," ","s","e","t","u","p"," ","t","o","o","l","'",",">>, <<"a","u","t","h","o","r","=","'","B","o","b","'",")">>>>),
    [Short(<<<<".","g","i","t">>, <<"c","o","n","f","i","g">>>>, <<<<"[","u","s","e","r","]">>, <<"n","a","m","e"," ","="," ","C","a","r","o","l">>>>) EXCEPT
        !.ini = [kind |-> "ok", user_name |-> JStr(<<"C","a","r","o","l">>), user_email |-> JAbsent]]}

\* n names: the prefix followed by 1, 2, ..., n
numbered(prefix, n) == [i \in 1..n |-> prefix \o str_int(i)]

\* the manifests, well-formed and malformed, the trees of manifests are drawn from
ManifestCatalogue == {
    PackageJson(5, JAbsent, JAbsent, JAbsent, JAbsent, JDict(<<<<"e","x","p","r","e","s","s">>>>)),
    [PackageJson(7, JAbsent, JAbsent, JAbsent, JDict(<<<<"s","t","a","r","t">>>>), JDict(<<<<"e","x","p","r","e","s","s">>, <<"c","o","r","s">>>>)) EXCEPT
        !.json.devDependencies = JDict(<<<<"j","e","s","t">>, <<"c","o","r","s">>>>)],
    PackageJson(20, JAbsent, JAbsent, JAbsent, JAbsent, JDict(numbered(<<"p","k","g">>, 16))),
    PackageJson(5, JAbsent, JAbsent, JAbsent, JDict(<<<<"s","t","a","r","t">>>>), JOther),
    [PackageJson(5, JAbsent, JAbsent, JAbsent, JAbsent, JDict(<<<<"e","x","p","r","e","s","s">>>>)) EXCEPT !.json.devDependencies = JStr(<<"j","e","s","t">>)],
    [PackageJson(1, JAbsent, JAbsent, JAbsent, JAbsent, JAbsent) EXCEPT !.json.kind = "invalid"],
    [PackageJson(1, JAbsent, JAbsent, JAbsent, JAbsent, JAbsent) EXCEPT !.json.kind = "list"],
    [PackageJson(3, JAbsent, JAbsent, JAbsent, JAbsent, JDict(<<<<"r","e","a","c","t">>>>)) EXCEPT !.mode = "undecodable"],
    Short(<<<<"r","e","q","u","i","r","e","m","e","n","t","s",".","t","x","t">>>>, <<<<"f","l","a","s","k","=","=","2",".","0",".","1">>, <<"n","u","m","p","y",">","=","1",".","2","0">>>>),
    Short(<<<<"r","e","q","u","i","r","e","m","e","n","t","s",".","t","x","t">>>>, numbered(<<"l","i","b">>, 16)),
    [Short(<<<<"r","e","q","u","i","r","e","m","e","n","t","s",".","t","x","t">>>>, <<<<"f","l","a","s","k","=","=","2",".","0",".","1">>>>) EXCEPT !.mode = "undecodable"],
    Short(<<<<"C","a","r","g","o",".","t","o","m","l">>>>, <<<<"[","p","a","c","k","a","g","e","]">>, <<"n","a","m","e"," ","="," ","\"","d","e","m","o","\"">>, <<"s","e","r","d","e"," ","="," ","\"","1",".","0","\"">>>>),
    Unreadable(<<<<"C","a","r","g","o",".","t","o","m","l">>>>),
    Short(<<<<"G","e","m","f","i","l","e">>>>, <<<<"s","o","u","r","c","e"," ","'","h","t","t","p","s",":","/","/","r","u","b","y","g","e","m","s",".","o","r","g","'">>, <<"g","e","m"," ","'","r","a","i","l","s","'">>>>),
    Short(<<<<"a","p","i">>, <<"p","a","c","k","a","g","e",".","j","s","o","n">>>>, <<<<"{">>>>),
    Short(<<<<"m","a","i","n",".","p","y">>>>, <<<<"i","m","p","o","r","t"," ","o","s">>>>)}

\* the largest number of files of a tree of the scan, and of the inference
MaxFiles == 3

MaxInferFiles == 2

\* the largest number of files of a tree of manifests
MaxManifests == 3

NoEnv == [USER |-> JAbsent, USERNAME |-> JAbsent]

Envs == {NoEnv, [NoEnv EXCEPT !.USER = JStr(<<"a","l","i","c","e">>)], [NoEnv EXCEPT !.USERNAME = JStr(<< >>)]}

\* the trees of at most n files of a catalogue: one file per path
Trees(catalogue, n) ==
    {t \in SUBSET catalogue : Cardinality(t) <= n /\ \A f, g \in t : f.path = g.path => f = g}

\* the state at the call of analyze_project_structure(project_path)
InitScan ==
    /\ rootParts \in Roots
    /\ tree \in Trees(ScanCatalogue, MaxFiles)
    /\ env = NoEnv
    /\ pc = "scan"
    /\ todo = RglobAll(tree)
    /\ analysis = analysis_init(rootParts)
    /\ info = << >>
    /\ entry = "analysis"
    /\ rootKind = "dir"
    /\ out = ""
    /\ sidecar = NoSidecar
    /\ user_data = << >>
    /\ answers = << >>
    /\ lastRead = << >>
    /\ project_type = << >>
    /\ installed = BothScripts
    /\ log = << >>
    /\ now = 0

\* the state at the call of analyze_project_structure on a tree of manifests
InitManifests ==
    /\ rootParts \in Roots
    /\ tree \in Trees(ManifestCatalogue, MaxManifests)
    /\ env = NoEnv
    /\ pc = "scan"
    /\ todo = RglobAll(tree)
    /\ analysis = analysis_init(rootParts)
    /\ info = << >>
    /\ entry = "analysis"
    /\ rootKind = "dir"
    /\ out = ""
    /\ sidecar = NoSidecar
    /\ user_data = << >>
    /\ answers = << >>
    /\ lastRead = << >>
    /\ project_type = << >>
    /\ installed = BothScripts
    /\ log = << >>
    /\ now = 0

\* the state at the call of analyze_project(), the scan of the same tree to follow
InitInfer ==
    /\ rootParts \in Roots
    /\ tree \in Trees(InferCatalogue, MaxInferFiles)
    /\ env \in Envs
    /\ pc = "infer"
    /\ todo = RglobAll(tree)
    /\ analysis = analysis_init(rootParts)
    /\ info = << >>
    /\ entry = "analysis"
    /\ rootKind = "dir"
    /\ out = ""
    /\ sidecar = NoSidecar
    /\ user_data = << >>
    /\ answers = << >>
    /\ lastRead = << >>
    /\ project_type = << >>
    /\ installed = BothScripts
    /\ log = << >>
    /\ now = 0

\* the characters of the lines of the requirements.txt under test, and their largest length
ReqAlphabet == {"a", "=", ">", "~", "#", " "}

MaxLineLen == 4

ReqLines == UNION {[1..n -> ReqAlphabet] : n \in 0..MaxLineLen}

\* a tree that holds only a requirements.txt of two lines
InitReq ==
    /\ rootParts = <<<<"/">>, <<"h","o","m","e">>, <<"p","r","o","j">>>>
    /\ \E l1 \in ReqLines, l2 \in {<<"f","l","a","s","k","=","=","2",".","0",".","1">>, <<" "," ","#"," ","p","i","n","n","e","d">>} :
        tree = {Short(<<<<"r","e","q","u","i","r","e","m","e","n","t","s",".","t","x","t">>>>, <<l1, l2>>)}
    /\ env = NoEnv
    /\ pc = "scan"
    /\ todo = RglobAll(tree)
    /\ analysis = analysis_init(rootParts)
    /\ info = << >>
    /\ entry = "analysis"
    /\ rootKind = "dir"
    /\ out = ""
    /\ sidecar = NoSidecar
    /\ user_data = << >>
    /\ answers = << >>
    /\ lastRead = << >>
    /\ project_type = << >>
    /\ installed = BothScripts
    /\ log = << >>
    /\ now = 0

\* the trees the entry points are run on: no file, or one file of a catalogue
EntryTrees == {{}} \cup {{f} : f \in ScanCatalogue \cup InferCatalogue}

\* the state at the start of an entry point, the path of the project folder given;
\* nothing lies under a path that is a file or does not exist
InitEntry ==
    /\ rootParts \in Roots
    /\ rootKind \in {"dir", "file", "missing"}
    /\ tree \in IF rootKind = "dir" THEN EntryTrees ELSE {{}}
    /\ entry \in {"create_readme", "main", "run_workflow"}
    /\ env = NoEnv
    /\ pc = "start"
    /\ todo = RglobAll(tree)
    /\ analysis = analysis_init(rootParts)
    /\ info = << >>
    /\ out = ""
    /\ sidecar = NoSidecar
    /\ user_data = << >>
    /\ answers = << >>
    /\ lastRead = << >>
    /\ project_type = << >>
    /\ installed = BothScripts
    /\ log = << >>
    /\ now = 0

Next == AnalyzeProject \/ ScanItem \/ BuildStructure

NextEntry ==
    \/ CreateReadmeStart
    \/ MainStart
    \/ WorkflowStart
    \/ AnalyzeProject
    \/ SaveToFile
    \/ WorkflowRender
    \/ ScanItem
    \/ BuildStructure

\* analyze_project_structure on the trees of the scan
SpecScan == InitScan /\ [][NextScan]_vars

\* the files the trees of source files are drawn from: several suffixes of one language
LanguageCatalogue == {
    Short(<<<<"a",".","y","a","m","l">>>>, <<<<"k",":"," ","1">>>>),
    Short(<<<<"b",".","y","m","l">>>>, <<<<"k",":"," ","1">>>>),
    Short(<<<<"c","o","n","f">>, <<"c",".","Y","M","L">>>>, <<<<"k",":"," ","1">>>>),
    Short(<<<<"m","a","i","n",".","c">>>>, <<<<"x">>>>),
    Short(<<<<"m","a","i","n",".","c","p","p">>>>, <<<<"x">>>>),
    Short(<<<<"m","a","i","n",".","c","s">>>>, <<<<"x">>>>),
    Short(<<<<"u","t","i","l",".","h">>>>, <<<<"x">>>>),
    Short(<<<<"a","p","p",".","p","y">>>>, <<<<"x">>>>)}

\* the largest number of files of a tree of source files
MaxLanguageFiles == 4

\* the state at the call of analyze_project_structure on a tree of source files
InitLanguages ==
    /\ rootParts \in Roots
    /\ tree \in Trees(LanguageCatalogue, MaxLanguageFiles)
    /\ env = NoEnv
    /\ pc = "scan"
    /\ todo = RglobAll(tree)
    /\ analysis = analysis_init(rootParts)
    /\ info = << >>
    /\ entry = "analysis"
    /\ rootKind = "dir"
    /\ out = ""
    /\ sidecar = NoSidecar
    /\ user_data = << >>
    /\ answers = << >>
    /\ lastRead = << >>
    /\ project_type = << >>
    /\ installed = BothScripts
    /\ log = << >>
    /\ now = 0

\* analyze_project_structure on the trees of source files
SpecLanguages == InitLanguages /\ [][NextScan]_vars

\* a readme_info.json as save_to_file writes it, with and without screenshots
SidecarInfo(has_screenshots, screenshot_note) == [
    description |-> JStr(<<"A"," ","t","o","o","l">>), features |-> <<<<"F","a","s","t">>>>, run_command |-> <<"p","y","t","h","o","n"," ","m","a","i","n",".","p","y">>,
    additional_usage |-> << >>, install_notes |-> << >>, author_name |-> JStr(<<"A","n","n">>),
    github_username |-> <<"a","n","n">>, email |-> JStr(<< >>), repo_name |-> <<"p","r","o","j">>, license |-> <<"G","P","L","-","3",".","0">>,
    has_screenshots |-> has_screenshots, screenshot_note |-> screenshot_note, acknowledgments |-> << >>]

\* the contents of readme_info.json get_user_input is run on
Sidecars == {
    NoSidecar,
    [kind |-> "invalid", value |-> << >>],
    [kind |-> "dict", value |-> << >>],
    [kind |-> "list", value |-> <<<<"x">>>>],
    [kind |-> "dict", value |-> [description |-> JStr(<<"A"," ","t","o","o","l">>)]],
    [kind |-> "dict", value |-> SidecarInfo(FALSE, << >>)],
    [kind |-> "dict", value |-> SidecarInfo(TRUE, << >>)],
    [kind |-> "dict", value |-> SidecarInfo(TRUE, <<"d","o","c","s","/","s","h","o","t",".","p","n","g">>)]}

\* the state at the call of get_user_input in create_readme
InitInput ==
    /\ rootParts = <<<<"/">>, <<"h","o","m","e">>, <<"p","r","o","j">>>>
    /\ tree = {}
    /\ env = NoEnv
    /\ pc = "input"
    /\ todo = {}
    /\ analysis = analysis_init(rootParts)
    /\ info = << >>
    /\ entry = "create_readme"
    /\ rootKind = "dir"
    /\ out = ""
    /\ sidecar \in Sidecars
    /\ user_data = << >>
    /\ answers = << >>
    /\ lastRead = << >>
    /\ project_type = << >>
    /\ installed = BothScripts
    /\ log = << >>
    /\ now = 0

\* get_user_input on the sidecars
SpecInput == InitInput /\ [][GetUserInput]_vars

\* the files _read_file_safe is called on: of 0 to 4 lines, and unreadable
ReadCatalogue == {
    TextFile(<<<<"e","m","p","t","y",".","t","x","t">>>>, 0, << >>),
    Short(<<<<"o","n","e",".","t","x","t">>>>, <<<<"o","n","e">>>>),
    Short(<<<<"t","w","o",".","t","x","t">>>>, <<<<"o","n","e">>, <<"t","w","o">>>>),
    Short(<<<<"t","h","r","e","e",".","t","x","t">>>>, <<<<"o","n","e">>, <<"t","w","o">>, <<"t","h","r","e","e">>>>),
    Short(<<<<"f","o","u","r",".","t","x","t">>>>, <<<<"o","n","e">>, <<"t","w","o">>, <<"t","h","r","e","e">>, <<"f","o","u","r">>>>),
    Long(<<<<"b","l","a","n","k",".","t","x","t">>>>, 3, <<<<"o","n","e">>>>),
    Unreadable(<<<<"d","a","t","a",".","b","i","n">>>>)}

\* the largest number of files of a tree _read_file_safe is called on
MaxReadFiles == 2

\* an AutoReadmeInfoGenerator on a tree of these files
InitRead ==
    /\ rootParts = <<<<"/">>, <<"h","o","m","e">>, <<"p","r","o","j">>>>
    /\ tree \in Trees(ReadCatalogue, MaxReadFiles)
    /\ env = NoEnv
    /\ pc = "read"
    /\ todo = {}
    /\ analysis = analysis_init(rootParts)
    /\ info = << >>
    /\ entry = "analysis"
    /\ rootKind = "dir"
    /\ out = ""
    /\ sidecar = NoSidecar
    /\ user_data = << >>
    /\ answers = << >>
    /\ lastRead = << >>
    /\ project_type = << >>
    /\ installed = BothScripts
    /\ log = << >>
    /\ now = 0

\* calls of _read_file_safe on the files of a tree
SpecRead == InitRead /\ [][ReadFileSafe]_vars

\* the manifest names and the dependency names the analyses given to detect_project_type are made of
TypeManifests == {<<"p","a","c","k","a","g","e",".","j","s","o","n">>, <<"r","e","q","u","i","r","e","m","e","n","t","s",".","t","x","t">>, <<"s","e","t","u","p",".","p","y">>, <<"p","y","p","r","o","j","e","c","t",".","t","o","m","l">>, <<"C","a","r","g","o",".","t","o","m","l">>,
                  <<"g","o",".","m","o","d">>, <<"p","o","m",".","x","m","l">>, <<"b","u","i","l","d",".","g","r","a","d","l","e">>, <<"G","e","m","f","i","l","e">>}

TypeDependencies == {<<"R","e","a","c","t">>, <<"v","u","e","-","r","o","u","t","e","r">>, <<"e","x","p","r","e","s","s">>, <<"n","e","x","t">>, <<"D","j","a","n","g","o">>, <<"f","l","a","s","k">>, <<"f","a","s","t","a","p","i">>, <<"l","o","d","a","s","h">>}

\* the largest number of manifests, and of dependencies, of such an analysis
MaxTypeFiles == 2

MaxTypeDependencies == 2

\* the analyses of a scan that found the manifests of names and, in the first of them, the dependencies deps
TypeAnalyses ==
    {[analysis_init(<<<<"/">>, <<"h","o","m","e">>, <<"p","r","o","j">>>>) EXCEPT
        !.main_files = SortedStrs(names),
        !.dependencies = IF deps = {} \/ names = {} THEN << >>
                         ELSE DictSet(<< >>, Lookup(dependency_files, SortedStrs(names)[1]), SortedStrs(deps))] :
        names \in {S \in SUBSET TypeManifests : Cardinality(S) <= MaxTypeFiles},
        deps \in {S \in SUBSET TypeDependencies : Cardinality(S) <= MaxTypeDependencies}}

\* the state at a call of detect_project_type(analysis)
InitType ==
    /\ rootParts = <<<<"/">>, <<"h","o","m","e">>, <<"p","r","o","j">>>>
    /\ tree = {}
    /\ env = NoEnv
    /\ pc = "type"
    /\ todo = {}
    /\ analysis \in TypeAnalyses
    /\ info = << >>
    /\ entry = "create_readme"
    /\ rootKind = "dir"
    /\ out = ""
    /\ sidecar = NoSidecar
    /\ user_data = << >>
    /\ answers = << >>
    /\ lastRead = << >>
    /\ project_type = << >>
    /\ installed = BothScripts
    /\ log = << >>
    /\ now = 0

\* detect_project_type on these analyses
SpecType == InitType /\ [][DetectProjectType]_vars

\* the files the trees of documents are drawn from
DocCatalogue == {
    Short(<<<<"R","E","A","D","M","E",".","m","d">>>>, <<<<"#"," ","D","e","m","o">>>>),
    Short(<<<<"r","e","a","d","m","e",".","m","d">>>>, <<<<"#"," ","D","e","m","o">>>>),
    Short(<<<<"L","I","C","E","N","S","E">>>>, <<<<"M","I","T"," ","L","i","c","e","n","s","e">>>>),
    Short(<<<<"L","I","C","E","N","S","E",".","t","x","t">>>>, <<<<"M","I","T"," ","L","i","c","e","n","s","e">>>>),
    Short(<<<<"L","I","C","E","N","S","E",".","m","d">>>>, <<<<"M","I","T"," ","L","i","c","e","n","s","e">>>>),
    Short(<<<<"d","o","c","s">>, <<"g","u","i","d","e",".","r","s","t">>>>, <<<<"G","u","i","d","e">>>>),
    Short(<<<<"n","o","t","e","s",".","T","X","T">>>>, <<<<"x">>>>),
    Short(<<<<"C","H","A","N","G","E","L","O","G",".","m","d">>>>, <<<<"x">>>>),
    Short(<<<<"m","a","i","n",".","p","y">>>>, <<<<"x">>>>)}

\* the largest number of files of a tree of documents
MaxDocFiles == 3

\* the state at the call of analyze_project_structure on a tree of documents
InitDocs ==
    /\ rootParts \in Roots
    /\ tree \in Trees(DocCatalogue, MaxDocFiles)
    /\ env = NoEnv
    /\ pc = "scan"
    /\ todo = RglobAll(tree)
    /\ analysis = analysis_init(rootParts)
    /\ info = << >>
    /\ entry = "analysis"
    /\ rootKind = "dir"
    /\ out = ""
    /\ sidecar = NoSidecar
    /\ user_data = << >>
    /\ answers = << >>
    /\ lastRead = << >>
    /\ project_type = << >>
    /\ installed = BothScripts
    /\ log = << >>
    /\ now = 0

\* analyze_project_structure on the trees of documents
SpecDocs == InitDocs /\ [][NextScan]_vars

\* the state at the start of run_workflow: the path typed is empty, or that of a
\* directory, of a file or of nothing, and each of the two scripts may be missing
InitWorkflow ==
    /\ rootParts \in Roots
    /\ rootKind \in {"dir", "file", "missing", "empty"}
    /\ tree \in IF rootKind = "dir" THEN EntryTrees ELSE {{}}
    /\ entry = "run_workflow"
    /\ env = NoEnv
    /\ pc = "start"
    /\ todo = RglobAll(tree)
    /\ analysis = analysis_init(rootParts)
    /\ info = << >>
    /\ out = ""
    /\ sidecar = NoSidecar
    /\ user_data = << >>
    /\ answers = << >>
    /\ lastRead = << >>
    /\ project_type = << >>
    /\ installed \in [auto : BOOLEAN, readme : BOOLEAN]
    /\ log = << >>
    /\ now = 0

NextWorkflow ==
    \/ WorkflowStart
    \/ AnalyzeProject
    \/ SaveToFile
    \/ WorkflowRender

\* run_workflow
SpecWorkflow == InitWorkflow /\ [][NextWorkflow]_vars

\* analyze_project, then analyze_project_structure, on the trees of the inference
SpecInfer == InitInfer /\ [][Next]_vars

\* analyze_project_structure on a requirements.txt of arbitrary lines
SpecReq == InitReq /\ [][NextScan]_vars

\* the three entry points, on a path that is a directory, a file or missing
SpecEntry == InitEntry /\ [][NextEntry]_vars

\* analyze_project_structure on trees of well-formed and malformed manifests
SpecManifests == InitManifests /\ [][NextScan]_vars

---------------------------------------------------------------------------
(* enhanced_readme_generator.py: create_readme, the backup and the save    *)

\* the last second of the clock
MaxClock == 2

\* n as two decimal digits
two_digits(n) == IF n < 10 THEN <<"0">> \o str_int(n) ELSE str_int(n)

\* datetime.now().strftime('%Y%m%d_%H%M%S'), t seconds into 2024-01-01
strftime(t) ==
    <<"2","0","2","4","0","1","0","1","_">> \o two_digits((t \div 3600) % 24) \o two_digits((t \div 60) % 60) \o two_digits(t % 60)

\* f"README.backup.{...}.md"
backup_name(t) == <<"R","E","A","D","M","E",".","b","a","c","k","u","p",".">> \o strftime(t) \o <<".","m","d">>

\* Path.rename on POSIX: the file at src is at dst afterwards, in place of any file that was there
rename_file(t, src, dst) == {f \in t : f.path \notin {src, dst}} \cup {[FileAt(t, src) EXCEPT !.path = dst]}

\* open(path, 'w') and f.write of the lines
write_file(t, path, ls) == {f \in t : f.path # path} \cup {Short(path, ls)}

\* the texts generate_readme_content returns, as lines
Rendered == {<<<<"#"," ","p","r","o","j">>>>, <<<<"#"," ","p","r","o","j">>, <<"B","y"," ","A","n","n">>>>}

\* create_readme from the save on: an existing README.md is renamed to the backup
\* name of the current second, then the new text is written; the rename and the
\* open may raise, and each failure is reported and returns None
SaveReadme ==
    /\ pc = "generate"
    /\ entry = "create_readme"
    /\ \E readme_content \in Rendered, renamed \in BOOLEAN, written \in BOOLEAN :
        LET output_path == <<<<"R","E","A","D","M","E",".","m","d">>>>
            backup_path == <<backup_name(now)>>
            backed == IF IsFile(tree, output_path) THEN rename_file(tree, output_path, backup_path) ELSE tree
        IN  IF IsFile(tree, output_path) /\ ~renamed
            THEN tree' = tree /\ out' = "error" /\ log' = Append(log, "could not create backup")
            ELSE IF ~written
            THEN tree' = backed /\ out' = "error" /\ log' = Append(log, "error writing README")
            ELSE tree' = write_file(backed, output_path, readme_content) /\ out' = "ok" /\ log' = Append(log, "created")
    /\ pc' = "returned"
    /\ UNCHANGED <<rootParts, env, todo, analysis, info, entry, rootKind, sidecar, user_data, answers, lastRead, project_type, installed, now>>

\* the largest number of runs of create_readme in a row
MaxRuns == 3

\* one more run of create_readme on the project, up to the save: nothing before
\* the save writes a file, and the clock has moved on by a second or has not
CreateReadmeAgain ==
    /\ pc = "returned"
    /\ entry = "create_readme"
    /\ Len(log) < MaxRuns
    /\ \E dt \in 0..1 :
        /\ now + dt <= MaxClock
        /\ now' = now + dt
    /\ pc' = "generate"
    /\ out' = ""
    /\ UNCHANGED <<rootParts, tree, env, todo, analysis, info, entry, rootKind, sidecar, user_data, answers, lastRead, project_type, installed, log>>

\* the projects create_readme is run on: without a README.md or with an earlier one
ReadmeTrees ==
    {{Short(<<<<"m","a","i","n",".","p","y">>>>, <<<<"p","r","i","n","t","(","1",")">>>>)} \cup r :
        r \in {{}, {Short(<<<<"R","E","A","D","M","E",".","m","d">>>>, <<<<"#"," ","o","l","d">>>>)}}}

\* the state of create_readme when generate_readme_content has returned
InitBackup ==
    /\ rootParts \in Roots
    /\ tree \in ReadmeTrees
    /\ env = NoEnv
    /\ pc = "generate"
    /\ todo = {}
    /\ analysis = analysis_init(rootParts)
    /\ info = << >>
    /\ entry = "create_readme"
    /\ rootKind = "dir"
    /\ out = ""
    /\ sidecar = NoSidecar
    /\ user_data = << >>
    /\ answers = << >>
    /\ lastRead = << >>
    /\ project_type = << >>
    /\ installed = BothScripts
    /\ log = << >>
    /\ now = 0

NextBackup == SaveReadme \/ CreateReadmeAgain

\* repeated runs of create_readme on one project
SpecBackup == InitBackup /\ [][NextBackup]_vars
---------------------------------------------------------------------------
(* Properties of analyze_project_structure                                 *)

\* the file at path p has a noise-directory name among its components below the root
in_noise(p) == \E i \in 1..Len(p) : p[i] \in ScanIgnore

\* the regular files under the root outside every noise directory
clean_files == {f \in tree : ~in_noise(f.path)}

\* lower-cased extension of a file, << >> when it has none
ext_of(f) == lower(suffix(Name(f.path)))

\* C1: when the scan returns, total_files is the number of regular files under the
\* root with no noise-directory name among their components below the root, and
\* every such file with an extension, unreadable ones included, is counted in
\* file_types under its extension.
C1_TotalFilesCountsCleanFiles ==
    pc = "done" =>
        /\ analysis.total_files = Cardinality(clean_files)
        /\ \A f \in clean_files :
            ext_of(f) # << >> =>
                DictGet(analysis.file_types, ext_of(f), 0) = Cardinality({g \in clean_files : ext_of(g) = ext_of(f)})

\* C2: when the scan returns, nothing under a noise directory shows in any output:
\* no noise directory is in directories or listed in the structure preview, the
\* file count a listed directory is annotated with counts only files outside noise
\* directories, and the counters and lists of files count no file under one.
C2_NoNoiseInAnyOutput ==
    pc = "done" =>
        /\ \A i \in 1..Len(analysis.directories) : analysis.directories[i] \notin ScanIgnore
        /\ \A i \in 1..Len(analysis.structure) : \A d \in ScanIgnore :
            ~startswith(analysis.structure[i], d \o <<"/"," ","(">>)
        /\ \A p \in IterDir(tree) : \A i \in 1..Len(analysis.structure) :
            startswith(analysis.structure[i], p[1] \o <<"/"," ","(">>) =>
                analysis.structure[i] = dir_entry(p[1], Cardinality({f \in FilesUnder(tree, p) : ~in_noise(f.path)}))
        /\ analysis.total_files <= Cardinality(clean_files)
        /\ \A ext \in DOMAIN analysis.file_types :
            analysis.file_types[ext] <= Cardinality({f \in clean_files : ext_of(f) = ext})
        /\ Len(analysis.main_files) <= Cardinality({f \in clean_files : HasKey(dependency_files, Name(f.path))})
        /\ Len(analysis.doc_files) <= Cardinality(clean_files)
        /\ Len(analysis.config_files) <= Cardinality(clean_files)
        /\ analysis.test_files <= Cardinality(clean_files)

\* the ecosystem keys of dependency_files
ecosystems == {p[2] : p \in dependency_files}

\* the top-level manifests of ecosystem tech visited so far whose branch of
\* extract_dependencies assigned a list, in the order of the visits
assigned_manifests(tech) ==
    SelectSeq(analysis.main_files,
              LAMBDA n : /\ Lookup(dependency_files, n) = tech
                         /\ IsFile(tree, <<n>>)
                         /\ extracted(FileAt(tree, <<n>>)) # {})

\* the list extract_dependencies takes from the top-level manifest named n
list_of(n) == CHOOSE d \in extracted(FileAt(tree, <<n>>)) : TRUE

\* the trees whose manifests are all at top level: main_files then names each visit
manifests_at_top == \A f \in tree : HasKey(dependency_files, Name(f.path)) => Len(f.path) = 1

\* C3 as claimed: the dependencies entry of an ecosystem holds the list of the first
\* of its manifests visited; a later manifest does not overwrite it.
C3_FirstManifestWins ==
    manifests_at_top =>
        \A tech \in ecosystems :
            assigned_manifests(tech) # << >> =>
                DictGet(analysis.dependencies, tech, << >>) = list_of(assigned_manifests(tech)[1])

\* C3 as amended: the dependencies entry of an ecosystem holds the list of the last
\* of its manifests visited that could be read and parsed; each such manifest
\* overwrites the entry.
C3_LastManifestWins ==
    manifests_at_top =>
        \A tech \in ecosystems :
            LET v == assigned_manifests(tech)
            IN  /\ v # << >> => /\ tech \in DOMAIN analysis.dependencies
                                /\ analysis.dependencies[tech] = list_of(v[Len(v)])
                /\ v = << >> => tech \notin DOMAIN analysis.dependencies

\* two manifests of the Python ecosystem were visited, requirements.txt first, and
\* the entry holds the list of pyproject.toml, which differs from the first list
C3_Witness ==
    /\ pc = "done"
    /\ assigned_manifests(<<"P","y","t","h","o","n">>) = <<<<"r","e","q","u","i","r","e","m","e","n","t","s",".","t","x","t">>, <<"p","y","p","r","o","j","e","c","t",".","t","o","m","l">>>>
    /\ list_of(<<"r","e","q","u","i","r","e","m","e","n","t","s",".","t","x","t">>) # list_of(<<"p","y","p","r","o","j","e","c","t",".","t","o","m","l">>)
    /\ analysis.dependencies[<<"P","y","t","h","o","n">>] = list_of(<<"p","y","p","r","o","j","e","c","t",".","t","o","m","l">>)

\* the name ends in _<8 digits>_<6 digits>.<ext> for some extension ext
timestamp_named(name) ==
    \E k \in 1..Len(name) :
        /\ ~contains(SubSeq(name, k, Len(name)), <<".">>)
        /\ timestamp_tail(name, SubSeq(name, k, Len(name)))

\* C10: when the scan returns, no top-level file with a timestamp-suffixed name is
\* listed in the structure preview, and each of them is counted in total_files.
C10_TimestampedOutputHiddenButCounted ==
    pc = "done" =>
        LET outputs == {f \in tree : Len(f.path) = 1 /\ timestamp_named(f.path[1])}
        IN  /\ \A f \in outputs : ~InSeq(f.path[1], analysis.structure)
            /\ analysis.total_files >= Cardinality(outputs)

---------------------------------------------------------------------------
(* Properties of extract_dependencies on requirements.txt                  *)

\* the first position of s at which one of ==, >= and ~= begins, Len(s) + 1 when there is none
first_operator(s) ==
    LET at(i) == MatchAt(s, i, <<"=","=">>) \/ MatchAt(s, i, <<">","=">>) \/ MatchAt(s, i, <<"~","=">>)
    IN  IF \E i \in 1..Len(s) : at(i) THEN CHOOSE i \in 1..Len(s) : at(i) /\ \A j \in 1..(i - 1) : ~at(j)
        ELSE Len(s) + 1

\* the line is empty or a comment once its surrounding whitespace is removed
blank_or_comment(line) == strip(line) = << >> \/ startswith(strip(line), <<"#">>)

\* the dependency names the lines stand for: one per line that is neither empty
\* nor a comment, the stripped line up to its first version operator
names_of(ls) ==
    LET kept == SelectSeq(ls, LAMBDA l : ~blank_or_comment(l))
    IN  [i \in 1..Len(kept) |-> SubSeq(strip(kept[i]), 1, first_operator(strip(kept[i])) - 1)]

\* C6: when the scan of a tree holding a requirements.txt returns, the Python entry
\* of dependencies lists, for each line that is neither empty nor a comment (a
\* comment may have leading whitespace), the stripped line before its first ==, >=
\* or ~=, and nothing for the other lines.
C6_RequirementNames ==
    (pc = "done" /\ IsFile(tree, <<<<"r","e","q","u","i","r","e","m","e","n","t","s",".","t","x","t">>>>) /\ ~ScanSkips(rootParts, <<<<"r","e","q","u","i","r","e","m","e","n","t","s",".","t","x","t">>>>)) =>
        /\ <<"P","y","t","h","o","n">> \in DOMAIN analysis.dependencies
        /\ analysis.dependencies[<<"P","y","t","h","o","n">>] = names_of(Lines(FileAt(tree, <<<<"r","e","q","u","i","r","e","m","e","n","t","s",".","t","x","t">>>>)))

---------------------------------------------------------------------------
(* Properties of analyze_project                                           *)

\* the top-level Python files of the tree
py_files == {f \in tree : Len(f.path) = 1 /\ endswith(f.path[1], <<".","p","y">>)}

\* C4: for a tree whose only Python file is foo_test.py with `def run_server():`,
\* the scan reports at least one test file and the features hold no entry derived
\* from run_server.
C4_TestFileCountedAndRunServerExcluded ==
    (pc = "done" /\ \E f \in tree : py_files = {f} /\ f.path = <<<<"f","o","o","_","t","e","s","t",".","p","y">>>>
                                    /\ InSeq(<<"d","e","f"," ","r","u","n","_","s","e","r","v","e","r","(",")",":">>, Lines(f))) =>
        /\ analysis.test_files >= 1
        /\ ~InSeq(<<"R","u","n"," ","S","e","r","v","e","r">>, info.features)

\* the license files of the tree
license_files_present == {f \in tree : Len(f.path) = 1 /\ InSeq(f.path[1], license_files)}

\* the lower-cased text of the first k lines of f
head_lower(f, k) == lower(TextFrom(SelectSeq(f.at, LAMBDA l : l.no <= k), 0))

\* C5: the license is MIT when the license file holds 'MIT License', GPL-3.0 when
\* its first 20 lines hold 'GNU General Public License' and 'version 3' and no
\* 'MIT License', whatever the number of lines of the file, and MIT when the tree
\* has no license file.
C5_LicenseDetected ==
    pc # "infer" =>
        /\ license_files_present = {} => info.license = <<"M","I","T">>
        /\ \A f \in license_files_present :
            license_files_present = {f} =>
                /\ contains(head_lower(f, 20), <<"m","i","t"," ","l","i","c","e","n","s","e">>) => info.license = <<"M","I","T">>
                /\ (/\ contains(head_lower(f, 20), <<"g","n","u"," ","g","e","n","e","r","a","l"," ","p","u","b","l","i","c"," ","l","i","c","e","n","s","e">>)
                    /\ contains(head_lower(f, 20), <<"v","e","r","s","i","o","n"," ","3">>)
                    /\ ~contains(head_lower(f, 20), <<"m","i","t"," ","l","i","c","e","n","s","e">>)) => info.license = <<"G","P","L","-","3",".","0">>

\* s without the elements equal to an earlier one
RECURSIVE dedup(_)
dedup(s) ==
    IF s = << >> THEN << >>
    ELSE LET d == dedup(SubSeq(s, 1, Len(s) - 1))
         IN  IF InSeq(s[Len(s)], d) THEN d ELSE Append(d, s[Len(s)])

\* C7: the features are at most 8, no two of them equal, in the order of first
\* appearance of the function-derived, class-derived and keyword-derived entries.
C7_FeaturesDistinctAndCapped ==
    pc # "infer" =>
        /\ Len(info.features) <= 8
        /\ \A i, j \in 1..Len(info.features) : info.features[i] = info.features[j] => i = j
        /\ \E order \in ListingOrders(tree) : info.features = Take(dedup(features_found(tree, order)), 8)

\* the first of the values that is a non-empty string, the fallback when there is none
first_non_empty(sources, fallback) ==
    LET filled == SelectSeq(sources, LAMBDA v : v.shape = "str" /\ v.s # << >>)
    IN  IF filled = << >> THEN fallback ELSE filled[1]

\* C8: the description is the value of the first source, in the order README,
\* main-file docstring, package.json, setup.py, that gives a non-empty string, the
\* inference from the file names and the generic fallback when none does; it is
\* never empty.
C8_DescriptionFirstNonEmptySource ==
    pc # "infer" =>
        /\ info.description.shape = "str"
        /\ info.description.s # << >>
        /\ \E order \in ListingOrders(tree) :
            info.description = first_non_empty(description_sources(tree, order),
                                               JStr(infer_from_structure(tree, Name(rootParts))))

\* C9: every field of the dictionary analyze_project returns is set, and none of
\* description, features, run_command, author_name, github_username, repo_name and
\* license is empty.
C9_FieldsNeverEmpty ==
    pc # "infer" =>
        /\ DOMAIN info = {"description", "features", "run_command", "additional_usage", "install_notes",
                          "author_name", "github_username", "email", "repo_name", "license",
                          "has_screenshots", "screenshot_note", "acknowledgments"}
        /\ info.description.shape # "absent" /\ info.description.s # << >>
        /\ info.author_name.shape # "absent" /\ info.author_name.s # << >>
        /\ info.features # << >>
        /\ info.run_command # << >>
        /\ info.github_username # << >>
        /\ info.repo_name # << >>
        /\ info.license # << >>

\* the author names the sources declare, in the order git config, setup.py, package.json
declared_authors(t) ==
    LET setup == IF IsFile(t, <<<<"s","e","t","u","p",".","p","y">>>>)
                 THEN search_assignment(Text(FileAt(t, <<<<"s","e","t","u","p",".","p","y">>>>)), <<"a","u","t","h","o","r">>, 1)
                 ELSE JAbsent
    IN  (IF git_ini_ok(t) /\ git_ini(t).user_name.shape = "str" THEN <<git_ini(t).user_name>> ELSE << >>)
        \o (IF setup.shape # "absent" THEN <<setup>> ELSE << >>)
        \o (IF package_json_dict(t) /\ package_json(t).author.shape = "str" THEN <<package_json(t).author>>
            ELSE IF package_json_dict(t) /\ package_json(t).author.shape = "dict"
                    /\ package_json(t).author_name.shape # "absent"
            THEN <<package_json(t).author_name>>
            ELSE << >>)

\* C18: author_name is the name of the first source that declares one, in the order
\* git config, setup.py, package.json (the string, or the name of the object); when
\* none declares a name, a package.json author object without name included, it is
\* the value of USER, else of USERNAME, else Your Name.
C18_AuthorNameFirstDeclared ==
    pc # "infer" =>
        info.author_name = IF declared_authors(tree) # << >> THEN Head(declared_authors(tree))
                           ELSE IF env.USER.shape = "str" THEN env.USER
                           ELSE IF env.USERNAME.shape = "str" THEN env.USERNAME
                           ELSE JStr(<<"Y","o","u","r"," ","N","a","m","e">>)

---------------------------------------------------------------------------
(* Properties of the entry points                                          *)

\* C11: when the path given is no directory, no entry point scans or infers
\* anything (analysis and info stay as they were), no file is written, and the
\* entry point returns with the error reported.
C11_InvalidRootFailsFast ==
    rootKind # "dir" =>
        /\ info = << >>
        /\ analysis = analysis_init(rootParts)
        /\ pc \notin {"infer", "scan", "save"}
        /\ tree = {}
        /\ pc = "returned" => out = "error"

---------------------------------------------------------------------------
(* Properties of the scan of manifests                                     *)

\* the manifest cannot be parsed: its bytes are not UTF-8 or it cannot be opened,
\* or it is a package.json that is no JSON object or whose dependencies or
\* devDependencies is neither absent nor an object
malformed(f) ==
    /\ Name(f.path) \in {<<"r","e","q","u","i","r","e","m","e","n","t","s",".","t","x","t">>, <<"p","a","c","k","a","g","e",".","j","s","o","n">>, <<"C","a","r","g","o",".","t","o","m","l">>, <<"p","y","p","r","o","j","e","c","t",".","t","o","m","l">>, <<"G","e","m","f","i","l","e">>, <<"g","o",".","m","o","d">>}
    /\ \/ f.mode # "ok"
       \/ /\ Name(f.path) = <<"p","a","c","k","a","g","e",".","j","s","o","n">>
          /\ \/ f.json.kind # "dict"
             \/ f.json.dependencies.shape \notin {"absent", "dict"}
             \/ f.json.devDependencies.shape \notin {"absent", "dict"}

\* the files the scan loop does not skip
scanned_files == {f \in tree : ~ScanSkips(rootParts, f.path)}

all_names(f) ==
    LET name == Name(f.path)
    IN  IF name = <<"r","e","q","u","i","r","e","m","e","n","t","s",".","t","x","t">> THEN requirements_deps(f)
        ELSE IF name = <<"p","a","c","k","a","g","e",".","j","s","o","n">> THEN merge_keys(f.json.dependencies.keys, f.json.devDependencies.keys)
        ELSE IF name = <<"C","a","r","g","o",".","t","o","m","l">> THEN findall_cargo(Text(f), 1)
        ELSE IF name = <<"p","y","p","r","o","j","e","c","t",".","t","o","m","l">> THEN findall_pyproject(Text(f), 1)
        ELSE findall_gem(Text(f), 1)

\* s is t, or the first 15 elements of t when t is longer
capped_prefix(s, t) ==
    /\ Len(s) <= 15
    /\ Len(s) = (IF Len(t) < 15 THEN Len(t) ELSE 15)
    /\ \A i \in 1..Len(s) : s[i] = t[i]

\* C13: every entry of dependencies has at most 15 names, and they are the first
\* names, in the order found, of a manifest of that ecosystem in the tree.
C13_DependenciesCappedInOrder ==
    \A tech \in DOMAIN analysis.dependencies :
        /\ Len(analysis.dependencies[tech]) <= 15
        /\ \E f \in scanned_files :
            /\ HasKey(dependency_files, Name(f.path))
            /\ Lookup(dependency_files, Name(f.path)) = tech
            /\ ~malformed(f)
            /\ capped_prefix(analysis.dependencies[tech], all_names(f))

\* the scan has returned from a tree with a manifest of 16 names, and the entry of
\* its ecosystem holds 15 of them
C13_Witness ==
    /\ pc = "done"
    /\ \E f \in scanned_files :
        /\ HasKey(dependency_files, Name(f.path))
        /\ ~malformed(f)
        /\ Len(all_names(f)) = 16
        /\ Lookup(dependency_files, Name(f.path)) \in DOMAIN analysis.dependencies
        /\ Len(analysis.dependencies[Lookup(dependency_files, Name(f.path))]) = 15

\* C15: for a root that holds only a package.json whose dependencies have the key
\* express and no key containing react or vue, the scan returns total_files = 1,
\* the Node.js entry is the list of the keys of dependencies, and the project type
\* is Node.js/Express Backend.
C15_ExpressPackageScenario ==
    \A f \in tree :
        (/\ pc = "done"
         /\ tree = {f}
         /\ f.path = <<<<"p","a","c","k","a","g","e",".","j","s","o","n">>>>
         /\ ~malformed(f)
         /\ f.json.dependencies.shape = "dict"
         /\ InSeq(<<"e","x","p","r","e","s","s">>, f.json.dependencies.keys)
         /\ \A i \in 1..Len(f.json.dependencies.keys) :
                /\ ~contains(lower(f.json.dependencies.keys[i]), <<"r","e","a","c","t">>)
                /\ ~contains(lower(f.json.dependencies.keys[i]), <<"v","u","e">>)) =>
            /\ analysis.total_files = 1
            /\ <<"N","o","d","e",".","j","s">> \in DOMAIN analysis.dependencies
            /\ analysis.dependencies[<<"N","o","d","e",".","j","s">>] = f.json.dependencies.keys
            /\ detect_project_type(analysis) = <<"N","o","d","e",".","j","s","/","E","x","p","r","e","s","s"," ","B","a","c","k","e","n","d">>

\* C16: the languages returned by analyze_project_structure are in ascending order
\* of str and no language is listed twice, also when several suffixes of the tree
\* map to one language.
C16_LanguagesSortedNoDuplicate ==
    pc = "done" =>
        \A i, j \in 1..Len(analysis.languages) :
            i < j => str_less(analysis.languages[i], analysis.languages[j])

\* a scan that met .yaml and .yml files and returned at least three languages
C16_Witness ==
    /\ pc = "done"
    /\ \E f, g \in tree : f.path = <<<<"a",".","y","a","m","l">>>> /\ g.path = <<<<"b",".","y","m","l">>>>
    /\ Len(analysis.languages) >= 3
    /\ InSeq(<<"Y","A","M","L">>, analysis.languages)

\* C17: the steps of analyze_project and of analyze_project_structure leave the
\* project tree as it is: no file is created, written, renamed or deleted.
C17_AnalysisLeavesTreeUnchanged ==
    [][(pc \in {"infer", "scan"}) => (tree' = tree)]_vars

\* inference and scan have both run over a tree with files
C17_Witness ==
    /\ pc = "done"
    /\ info # << >>
    /\ analysis.total_files > 0
    /\ tree # {}

---------------------------------------------------------------------------
(* Properties of get_user_input                                            *)

\* the merge policy the user selected: the answer 1 is the default of the prompt
selected_policy == IF strip(answers["choice"]) = << >> THEN <<"1">> ELSE strip(answers["choice"])

\* the user left the prompt of the field k blank, or confirmed the value shown
blank_or_confirmed(k) ==
    CASE k = "features" -> lower(strip(answers["use_auto"])) # <<"n">>
      [] k = "license" -> lower(strip(answers["keep_license"])) # <<"n">>
      [] k = "has_screenshots" -> sidecar.value.has_screenshots \/ strip(answers["has_screenshots"]) = << >>
      [] OTHER -> strip(answers[k]) = << >>

\* C19: with a readme_info.json that parses to a dict with content, the answer 1
\* returns exactly the content of the sidecar, an answer other than 1 and 3 gives
\* the result the same answers give without a sidecar, and the answer 3 gives, for
\* every field of the sidecar the user leaves blank or confirms, the value of the
\* sidecar; a readme_info.json that does not parse is treated as an absent one.
C19_MergePolicyApplied ==
    answers # << >> =>
        /\ (sidecar.kind = "dict" /\ sidecar.value # << >> /\ selected_policy = <<"1">>) =>
                out # "raised" /\ user_data = sidecar.value
        /\ (sidecar.kind = "dict" /\ sidecar.value # << >> /\ selected_policy \notin {<<"1">>, <<"3">>}) =>
                out # "raised" /\ user_data = get_user_input(NoSidecar, answers).value
        /\ (sidecar.kind = "dict" /\ sidecar.value # << >> /\ selected_policy = <<"3">>) =>
                /\ out # "raised"
                /\ \A k \in DOMAIN sidecar.value \cap DOMAIN user_data :
                        blank_or_confirmed(k) => user_data[k] = sidecar.value[k]
        /\ sidecar.kind = "invalid" =>
                out # "raised" /\ user_data = get_user_input(NoSidecar, answers).value

---------------------------------------------------------------------------
(* Properties of _read_file_safe                                           *)

\* the lines of f that are not empty among its first k lines
first_lines(f, k) == SelectSeq(f.at, LAMBDA l : l.no <= k)

\* C20: for a file of N lines that can be opened, _read_file_safe(path, max_lines)
\* returns the first min(N, max_lines) lines, so the whole file when N < max_lines;
\* it returns the empty str only if the file cannot be opened or these lines are empty.
C20_ReadsFirstLines ==
    (lastRead # << >> /\ IsFile(tree, lastRead.path)) =>
        LET f == FileAt(tree, lastRead.path)
            k == IF f.n < lastRead.max_lines THEN f.n ELSE lastRead.max_lines
        IN  /\ f.mode # "unreadable" => lastRead.text = TextFrom(first_lines(f, k), 0)
            /\ lastRead.text = << >> => (f.mode = "unreadable" \/ first_lines(f, k) = << >>)

---------------------------------------------------------------------------
(* Properties of the detectors of analyze_project                          *)

\* the identifier of the first phrase signature the lower-cased text matches, in a
\* one-element set: MIT, Apache with 2.0, GPL with a version, BSD; {} when none matches
first_signature(text) ==
    IF contains(text, <<"m","i","t"," ","l","i","c","e","n","s","e">>) THEN {<<"M","I","T">>}
    ELSE IF contains(text, <<"a","p","a","c","h","e">>) /\ contains(text, <<"2",".","0">>) THEN {<<"A","p","a","c","h","e","-","2",".","0">>}
    ELSE IF contains(text, <<"g","n","u"," ","g","e","n","e","r","a","l"," ","p","u","b","l","i","c"," ","l","i","c","e","n","s","e">>) /\ contains(text, <<"v","e","r","s","i","o","n"," ","3">>) THEN {<<"G","P","L","-","3",".","0">>}
    ELSE IF contains(text, <<"g","n","u"," ","g","e","n","e","r","a","l"," ","p","u","b","l","i","c"," ","l","i","c","e","n","s","e">>) /\ contains(text, <<"v","e","r","s","i","o","n"," ","2">>) THEN {<<"G","P","L","-","2",".","0">>}
    ELSE IF contains(text, <<"b","s","d">>) THEN {<<"B","S","D","-","3","-","C","l","a","u","s","e">>}
    ELSE {}

\* the identifiers the license files of the tree give, in the order of license_files,
\* each from the first 20 lines of its file
signatures_found(t) ==
    Concat([k \in 1..Len(license_files) |->
        IF IsFile(t, <<license_files[k]>>) /\ FileAt(t, <<license_files[k]>>).mode # "unreadable"
           /\ first_signature(lower(TextFrom(first_lines(FileAt(t, <<license_files[k]>>), 20), 0))) # {}
        THEN <<CHOOSE x \in first_signature(lower(TextFrom(first_lines(FileAt(t, <<license_files[k]>>), 20), 0))) : TRUE>>
        ELSE << >>])

\* C21: the license is the identifier of the first phrase signature that matches
\* the license file, in the order MIT, Apache with 2.0, GPL with version 3 or 2,
\* BSD (so a GPL phrase without version next to bsd gives BSD-3-Clause), and the
\* default MIT only when no signature matches or no license file exists.
C21_LicenseFirstSignature ==
    pc # "infer" =>
        info.license = IF signatures_found(tree) # << >> THEN Head(signatures_found(tree)) ELSE <<"M","I","T">>

\* the top-level .py files, in listing order, that contain the marker if __name__
marked_scripts(t, order) ==
    SelectSeq(glob_py(order), LAMBDA n : IsFile(t, <<n>>) /\ contains(Text(FileAt(t, <<n>>)), <<"i","f"," ","_","_","n","a","m","e","_","_">>))

\* the command of the first source that applies: package.json scripts, a file of
\* main_patterns, a marked script, setup.py, the placeholder
first_command(t, order, project_name) ==
    LET scripts == IF package_json_dict(t) /\ package_json(t).scripts.shape = "dict"
                   THEN package_json(t).scripts.keys ELSE << >>
        mains == SelectSeq(main_patterns, LAMBDA n : Exists(t, <<n>>))
    IN  IF InSeq(<<"s","t","a","r","t">>, scripts) THEN <<"n","p","m"," ","s","t","a","r","t">>
        ELSE IF InSeq(<<"d","e","v">>, scripts) THEN <<"n","p","m"," ","r","u","n"," ","d","e","v">>
        ELSE IF mains # << >> /\ mains[1] = <<"m","a","n","a","g","e",".","p","y">> THEN <<"p","y","t","h","o","n"," ","m","a","n","a","g","e",".","p","y"," ","r","u","n","s","e","r","v","e","r">>
        ELSE IF mains # << >> THEN <<"p","y","t","h","o","n"," ">> \o mains[1]
        ELSE IF marked_scripts(t, order) # << >> THEN <<"p","y","t","h","o","n"," ">> \o marked_scripts(t, order)[1]
        ELSE IF Exists(t, <<<<"s","e","t","u","p",".","p","y">>>>) THEN <<"p","y","t","h","o","n"," ","s","e","t","u","p",".","p","y"," ","i","n","s","t","a","l","l"," ","&","&"," ">> \o lower(project_name)
        ELSE <<"p","y","t","h","o","n"," ","m","a","i","n",".","p","y"," "," ","#"," ","A","d","j","u","s","t"," ","a","s"," ","n","e","e","d","e","d">>

\* C22: run_command is the command of the first source that applies, in the order
\* package.json scripts (start, else dev), the first existing file of main_patterns,
\* the first top-level .py file with an if __name__ marker, setup.py, and else the
\* placeholder; a later source is never used when an earlier one applies.
C22_RunCommandFirstSource ==
    pc # "infer" =>
        \E order \in ListingOrders(tree) : info.run_command = first_command(tree, order, Name(rootParts))

---------------------------------------------------------------------------
(* Properties of detect_project_type                                       *)

\* the names of all dependencies of the analysis, lower-cased
dependency_names(a) ==
    UNION {{lower(d) : d \in Range(a.dependencies[tech])} : tech \in DOMAIN a.dependencies}

\* the label of the first pair <<word, label>> of table whose word is part of a
\* dependency name, other when there is none
RECURSIVE first_label(_, _, _)
first_label(a, table, other) ==
    IF table = << >> THEN other
    ELSE IF \E d \in dependency_names(a) : contains(d, Head(table)[1]) THEN Head(table)[2]
    ELSE first_label(a, Tail(table), other)

\* C23: the label is decided by a fixed priority: package.json found (React, Vue.js,
\* Express, Next.js, else Node.js Application), else a Python manifest found (Django,
\* Flask, FastAPI, else Python Project), else Cargo.toml, go.mod, pom.xml or
\* build.gradle, and Software Project when no such manifest was found.
C23_ProjectTypePriority ==
    pc = "typed" =>
        LET found == Range(analysis.main_files) \cup Range(analysis.config_files)
        IN  project_type =
                IF <<"p","a","c","k","a","g","e",".","j","s","o","n">> \in found
                THEN first_label(analysis, <<<<<<"r","e","a","c","t">>, <<"R","e","a","c","t"," ","A","p","p","l","i","c","a","t","i","o","n">>>>, <<<<"v","u","e">>, <<"V","u","e",".","j","s"," ","A","p","p","l","i","c","a","t","i","o","n">>>>,
                                              <<<<"e","x","p","r","e","s","s">>, <<"N","o","d","e",".","j","s","/","E","x","p","r","e","s","s"," ","B","a","c","k","e","n","d">>>>,
                                              <<<<"n","e","x","t">>, <<"N","e","x","t",".","j","s"," ","A","p","p","l","i","c","a","t","i","o","n">>>>>>, <<"N","o","d","e",".","j","s"," ","A","p","p","l","i","c","a","t","i","o","n">>)
                ELSE IF \E n \in {<<"r","e","q","u","i","r","e","m","e","n","t","s",".","t","x","t">>, <<"s","e","t","u","p",".","p","y">>, <<"p","y","p","r","o","j","e","c","t",".","t","o","m","l">>} : n \in found
                THEN first_label(analysis, <<<<<<"d","j","a","n","g","o">>, <<"D","j","a","n","g","o"," ","A","p","p","l","i","c","a","t","i","o","n">>>>, <<<<"f","l","a","s","k">>, <<"F","l","a","s","k"," ","A","p","p","l","i","c","a","t","i","o","n">>>>,
                                              <<<<"f","a","s","t","a","p","i">>, <<"F","a","s","t","A","P","I"," ","A","p","p","l","i","c","a","t","i","o","n">>>>>>, <<"P","y","t","h","o","n"," ","P","r","o","j","e","c","t">>)
                ELSE IF <<"C","a","r","g","o",".","t","o","m","l">> \in found THEN <<"R","u","s","t"," ","P","r","o","j","e","c","t">>
                ELSE IF <<"g","o",".","m","o","d">> \in found THEN <<"G","o"," ","P","r","o","j","e","c","t">>
                ELSE IF <<"p","o","m",".","x","m","l">> \in found \/ <<"b","u","i","l","d",".","g","r","a","d","l","e">> \in found THEN <<"J","a","v","a"," ","P","r","o","j","e","c","t">>
                ELSE <<"S","o","f","t","w","a","r","e"," ","P","r","o","j","e","c","t">>

\* package.json and requirements.txt were both found, with a dependency named Django
C23_Witness ==
    /\ pc = "typed"
    /\ InSeq(<<"p","a","c","k","a","g","e",".","j","s","o","n">>, analysis.main_files)
    /\ InSeq(<<"r","e","q","u","i","r","e","m","e","n","t","s",".","t","x","t">>, analysis.main_files)
    /\ \E d \in dependency_names(analysis) : contains(d, <<"d","j","a","n","g","o">>)
    /\ project_type = <<"N","o","d","e",".","j","s"," ","A","p","p","l","i","c","a","t","i","o","n">>

---------------------------------------------------------------------------
(* Properties of the structure preview and of the tags of the scan         *)

\* the files under the top-level directory d that the scan counts: those with no
\* noise-directory name among their components below the root
counted_under(d) == {f \in FilesUnder(tree, d) : ~in_noise(f.path)}

\* C24: every top-level directory listed in the structure preview is annotated
\* with the number of regular files under it that are beneath no noise directory,
\* the files of that directory the scan counts in total_files.
C24_PreviewCountMatchesScan ==
    pc = "done" =>
        \A d \in IterDir(tree) : \A i \in 1..Len(analysis.structure) :
            (IsDir(tree, d) /\ startswith(analysis.structure[i], d[1] \o <<"/"," ","(">>)) =>
                analysis.structure[i] = dir_entry(d[1], Cardinality(counted_under(d)))

\* the name is that of a license file or of the primary README, whatever its case
reserved_document(name) == upper(name) \in {<<"L","I","C","E","N","S","E">>, <<"L","I","C","E","N","S","E",".","T","X","T">>, <<"L","I","C","E","N","S","E",".","M","D">>, <<"R","E","A","D","M","E",".","M","D">>}

\* C25: when the scan returns, a file it did not skip is listed in doc_files iff its
\* extension is .md, .rst or .txt and it is neither a license file nor the primary
\* README, in any case; README.md, LICENSE.txt and LICENSE.md are never listed.
C25_DocFilesExcludeReserved ==
    pc = "done" =>
        \A f \in scanned_files :
            InSeq(Name(f.path), analysis.doc_files) <=>
                (ext_of(f) \in {<<".","m","d">>, <<".","r","s","t">>, <<".","t","x","t">>} /\ ~reserved_document(Name(f.path)))

---------------------------------------------------------------------------
(* Properties of run_workflow                                              *)

\* the positions of the log at which e was recorded
positions(e) == {i \in 1..Len(log) : log[i] = e}

\* C26: the README generator is started only after the analysis step has returned;
\* the render step is attempted also when the analysis step was not run or failed;
\* and when the path typed is empty or does not exist neither step is run.
C26_RenderAfterAnalysis ==
    /\ \A r \in positions("render started") :
        /\ \A a \in positions("analysis started") : \E b \in positions("analysis returned") : a < b /\ b < r
        /\ pc \notin {"infer", "save"}
    /\ (pc = "returned" /\ rootKind \in {"dir", "file"}) =>
        /\ positions("step 2") # {}
        /\ installed.readme => (positions("render started") # {} \/ positions("render not started") # {})
    /\ rootKind \in {"empty", "missing"} => (log = << >> /\ pc \in {"start", "returned"} /\ info = << >>)

\* the analysis step crashed in its subprocess and the generator was started all the same
C26_Witness ==
    /\ pc = "returned"
    /\ rootKind = "file"
    /\ positions("analysis returned") # {}
    /\ positions("render started") # {}

\* C29: the completion banner is printed only on a run in which the README
\* generator was found and started.
C29_CompleteOnlyAfterRender ==
    positions("workflow complete") # {} => positions("render started") # {}


\* a second location of the same project, none of whose ancestors has a noise name
elsewhere == <<<<"/">>, <<"h","o","m","e">>, <<"p","r","o","j">>>>

\* the files the scan loop visits when the project lies at root
visited_from(root) == {f \in tree : ~ScanSkips(root, f.path)}

\* C28: when the scan returns, total_files, the extension histogram, the languages
\* and the structure listing are those the scan gives for the same contents placed
\* at another root whose ancestors have other names.
C28_ResultIndependentOfAncestors ==
    pc = "done" =>
        /\ analysis.total_files = Cardinality(visited_from(elsewhere))
        /\ \A f \in visited_from(elsewhere) :
            ext_of(f) # << >> =>
                DictGet(analysis.file_types, ext_of(f), 0) = Cardinality({g \in visited_from(elsewhere) : ext_of(g) = ext_of(f)})
        /\ analysis.languages = SortedStrs({Lookup(language_map, ext_of(f)) : f \in {g \in visited_from(elsewhere) : HasKey(language_map, ext_of(g))}})
        /\ analysis.structure = structure_of(elsewhere, tree, sorted_iterdir(tree))

\* the README.md of a project and its backups
readme_copies(t) == {f \in t : f.path = <<<<"R","E","A","D","M","E",".","m","d">>>> \/ \E s \in 0..MaxClock : f.path = <<backup_name(s)>>}

\* C27: a run of create_readme loses no text: whatever README.md or a backup held
\* before the save is held by README.md or a backup after it, also when the
\* backup name of the run is that of an earlier run, and a run whose rename
\* failed leaves README.md as it was.
C27_ReadmeTextsKept ==
    [][(pc = "generate" /\ pc' = "returned") =>
        (/\ \A f \in readme_copies(tree) : \E g \in readme_copies(tree') : g.at = f.at /\ g.n = f.n
         /\ (log' = Append(log, "could not create backup") => tree' = tree))]_vars
====
